---- MODULE Spec2Model ----
(***************************************************************************)
(* A model of the data-analysis backend of integratingagents               *)
(* (src/backend/server.js): the statistics engine computeStatistic, the    *)
(* response normalizer validateAndFormatResponse, the chart validator      *)
(* validateVegaSpec and the POST /api/generate-response handler with its   *)
(* module-level `dataset` variable.                                        *)
(*                                                                         *)
(* JavaScript values are tagged records.  A string is a sequence of        *)
(* one-character strings, so that lower-casing, stripping and parsing are  *)
(* computed character by character.  A number is kept in hundredths (the   *)
(* precision of toFixed(2)): Num(250) is 2.5.                              *)
(***************************************************************************)
EXTENDS Integers, Sequences, FiniteSets, TLC

VARIABLES
  dataset,   \* server.js `let dataset`: Null or an array of rows
  call,      \* the function invocation of the pure-function specifications
  req,       \* per request: the handler's local variables and its position
  sent,      \* per request: the HTTP response sent, or NoResponse
  env        \* process.env: is OPENAI_API_KEY set?

vars == <<dataset, call, req, sent, env>>

(***************************************************************************)
(* Bounds of the model.                                                    *)
(***************************************************************************)
MaxRows == 2          \* rows of a dataset handed to computeStatistic

(***************************************************************************)
(* JavaScript values.                                                      *)
(***************************************************************************)
Scale == 100          \* two decimals: Number(x.toFixed(2))

Undefined == [t |-> "undefined"]
Null == [t |-> "null"]
NaN == [t |-> "NaN"]
Num(h) == [t |-> "number", h |-> h]
Whole(n) == Num(n * Scale)
Str(s) == [t |-> "string", s |-> s]
Arr(a) == [t |-> "array", a |-> a]
Obj(o) == [t |-> "object", o |-> o]

\* ToBoolean: what `if (v)` and `!v` test
Truthy(v) ==
  CASE v.t = "undefined" -> FALSE
    [] v.t = "null" -> FALSE
    [] v.t = "NaN" -> FALSE
    [] v.t = "number" -> v.h # 0
    [] v.t = "string" -> v.s # <<>>
    [] OTHER -> TRUE

Return(v) == [kind |-> "return", value |-> v]
Throw(name, message) == [kind |-> "throw", name |-> name, message |-> message]

(***************************************************************************)
(* Strings.                                                                *)
(***************************************************************************)
UpperChars == <<"A","B","C","D","E","F","G","H","I","J","K","L","M",
                "N","O","P","Q","R","S","T","U","V","W","X","Y","Z">>
LowerChars == <<"a","b","c","d","e","f","g","h","i","j","k","l","m",
                "n","o","p","q","r","s","t","u","v","w","x","y","z">>
DigitChars == <<"0","1","2","3","4","5","6","7","8","9">>

ToLowerChar(c) ==
  IF \E i \in DOMAIN UpperChars : UpperChars[i] = c
  THEN LowerChars[CHOOSE i \in DOMAIN UpperChars : UpperChars[i] = c]
  ELSE c

\* String.prototype.toLowerCase
toLowerCase(s) == [i \in DOMAIN s |-> ToLowerChar(s[i])]

\* the class \s of a regular expression, within the model's alphabet
IsSpace(c) == c \in {" ", "\t", "\n"}
IsDigit(c) == \E i \in DOMAIN DigitChars : DigitChars[i] = c
DigitVal(c) == (CHOOSE i \in DOMAIN DigitChars : DigitChars[i] = c) - 1

\* the character classes of s.replace(/[\s_]/g, '') and val.replace(/[$,]/g, '')

IsSpaceOrUnderscore(c) == IsSpace(c) \/ c = "_"
IsCurrencyChar(c) == c \in {"$", ","}

\* const normalizeFieldName = (name) => name.toLowerCase().replace(/[\s_]/g, '')
normalizeFieldName(s) ==
  SelectSeq(toLowerCase(s), LAMBDA c : ~IsSpaceOrUnderscore(c))

RECURSIVE TrimStart(_)
TrimStart(s) ==
  IF s # <<>> /\ IsSpace(Head(s)) THEN TrimStart(Tail(s)) ELSE s

RECURSIVE TrimEnd(_)
TrimEnd(s) ==
  IF s # <<>> /\ IsSpace(s[Len(s)]) THEN TrimEnd(SubSeq(s, 1, Len(s) - 1)) ELSE s

RECURSIVE DigitPrefix(_)
DigitPrefix(s) ==
  IF s # <<>> /\ IsDigit(Head(s)) THEN <<Head(s)>> \o DigitPrefix(Tail(s)) ELSE <<>>

RECURSIVE DigitsToNat(_)
DigitsToNat(ds) ==
  IF ds = <<>> THEN 0
  ELSE 10 * DigitsToNat(SubSeq(ds, 1, Len(ds) - 1)) + DigitVal(ds[Len(ds)])

HasSign(s) == s # <<>> /\ Head(s) \in {"-", "+"}
Unsigned(s) == IF HasSign(s) THEN Tail(s) ELSE s
Signed(s, n) == IF s # <<>> /\ Head(s) = "-" THEN 0 - n ELSE n

\* parseFloat of a string: leading white space, an optional sign, the longest
\* run of digits; what follows is ignored.  (The alphabet of the model has no
\* decimal point and no exponent.)
ParseFloatString(s) ==
  LET u == TrimStart(s)
      ds == DigitPrefix(Unsigned(u))
  IN IF ds = <<>> THEN NaN ELSE Whole(Signed(u, DigitsToNat(ds)))

\* parseFloat(v): v is converted to a string first, so a number parses to
\* itself and null, undefined and NaN to NaN
parseFloat(v) ==
  CASE v.t = "string" -> ParseFloatString(v.s)
    [] v.t = "number" -> v
    [] OTHER -> NaN

isNaN(v) == v.t = "NaN"

\* ToNumber of a string, as the == operator applies it: the whole trimmed
\* string must be a numeral, and the empty string is 0
ToNumberString(s) ==
  LET u == TrimEnd(TrimStart(s))
      ds == DigitPrefix(Unsigned(u))
  IN IF u = <<>> THEN Whole(0)
     ELSE IF ds # <<>> /\ Len(ds) = Len(Unsigned(u))
          THEN Whole(Signed(u, DigitsToNat(ds)))
          ELSE NaN

RECURSIVE NatToChars(_)
NatToChars(n) ==
  IF n < 10 THEN <<DigitChars[n + 1]>>
  ELSE NatToChars(n \div 10) \o <<DigitChars[(n % 10) + 1]>>

\* String(v) of a value used as a property key (whole numbers only)
StringOf(v) ==
  CASE v.t = "string" -> v.s
    [] v.t = "number" ->
         IF v.h < 0 THEN <<"-">> \o NatToChars((0 - v.h) \div Scale)
         ELSE NatToChars(v.h \div Scale)
    [] v.t = "null" -> <<"n","u","l","l">>
    [] v.t = "NaN" -> <<"N","a","N">>
    [] v.t = "undefined" -> <<"u","n","d","e","f","i","n","e","d">>
    [] OTHER -> <<"[","o","b","j","e","c","t"," ","O","b","j","e","c","t","]">>

\* the abstract equality a == b on numbers, strings, null and undefined
LooseEquals(a, b) ==
  IF a.t = "NaN" \/ b.t = "NaN" THEN FALSE
  ELSE IF a.t \in {"null", "undefined"} THEN b.t \in {"null", "undefined"}
  ELSE IF b.t \in {"null", "undefined"} THEN FALSE
  ELSE IF a.t = b.t THEN a = b
  ELSE IF a.t = "number" /\ b.t = "string" THEN ToNumberString(b.s) = a
  ELSE IF a.t = "string" /\ b.t = "number" THEN ToNumberString(a.s) = b
  ELSE FALSE

\* a <= b with a NaN operand counted as 0
NumLessEqCoercing(a, b) ==
  (IF a.t = "number" THEN a.h ELSE 0) <= (IF b.t = "number" THEN b.h ELSE 0)

\* a < b on two results of parseFloat
NumLess(a, b) == a.t = "number" /\ b.t = "number" /\ a.h < b.h
NumLessEq(a, b) == a.t = "number" /\ b.t = "number" /\ a.h <= b.h

\* text of a message: literal parts are single tokens, interpolated values
\* are spliced in character by character
Lit(text) == <<text>>

RECURSIVE Join(_, _)
\* Array.prototype.join of an array of strings
Join(strs, sep) ==
  IF strs = <<>> THEN <<>>
  ELSE IF Len(strs) = 1 THEN strs[1]
       ELSE strs[1] \o sep \o Join(Tail(strs), sep)

(***************************************************************************)
(* Rows and datasets.  A row is the sequence of an object's own            *)
(* <<key, value>> properties in insertion order; a dataset is Null or      *)
(* Arr(rows).                                                              *)
(***************************************************************************)
\* Object.keys(row)
Keys(row) == [i \in DOMAIN row |-> row[i][1]]

\* row[key]
Get(row, key) ==
  IF \E i \in DOMAIN row : row[i][1] = key
  THEN row[CHOOSE i \in DOMAIN row : row[i][1] = key][2]
  ELSE Undefined

\* availableFields.find(f => normalizeFieldName(f) === normalized)
FindField(availableFields, normalized) ==
  LET hits == {i \in DOMAIN availableFields :
                 normalizeFieldName(availableFields[i]) = normalized}
  IN IF hits = {} THEN Undefined
     ELSE Str(availableFields[CHOOSE i \in hits : \A j \in hits : i <= j])

(***************************************************************************)
(* calculateStat and calculateCorrelation.                                 *)
(***************************************************************************)
OpCount == <<"c","o","u","n","t">>
OpMean == <<"m","e","a","n">>
OpMedian == <<"m","e","d","i","a","n">>
OpSum == <<"s","u","m">>
OpMin == <<"m","i","n">>
OpMax == <<"m","a","x">>
OpCorrelation == <<"c","o","r","r","e","l","a","t","i","o","n">>

PosInfinity == [t |-> "Infinity"]
NegInfinity == [t |-> "-Infinity"]

RECURSIVE SumH(_)
\* values.reduce((a, b) => a + b, 0), in hundredths
SumH(values) == IF values = <<>> THEN 0 ELSE Head(values).h + SumH(Tail(values))

\* Number((a / n).toFixed(2)) for a in hundredths: the nearest hundredth
RoundDiv(a, n) == (2 * a + n) \div (2 * n)

MinH(values) == CHOOSE m \in {values[i].h : i \in DOMAIN values} :
                  \A i \in DOMAIN values : m <= values[i].h
MaxH(values) == CHOOSE m \in {values[i].h : i \in DOMAIN values} :
                  \A i \in DOMAIN values : m >= values[i].h

\* the array left in its input order
NoSort(values) == values

\* values.sort((a, b) => a - b)
SortAscending(values) == SortSeq(values, LAMBDA a, b : a.h < b.h)

Median(values) ==
  LET sorted == SortAscending(values)
      mid == Len(values) \div 2
  IN IF Len(values) % 2 # 0 THEN sorted[mid + 1]
     ELSE Num(RoundDiv(sorted[mid].h + sorted[mid + 1].h, 2))

calculateStat(values, operation) ==
  CASE operation = Str(OpCount) -> Return(Whole(Len(values)))
    [] operation = Str(OpMean) ->
         Return(IF values = <<>> THEN NaN ELSE Num(RoundDiv(SumH(values), Len(values))))
    [] operation = Str(OpMedian) ->
         Return(IF values = <<>> THEN NaN ELSE Median(values))
    [] operation = Str(OpSum) -> Return(Num(SumH(values)))
    [] operation = Str(OpMin) ->
         Return(IF values = <<>> THEN PosInfinity ELSE Num(MinH(values)))
    [] operation = Str(OpMax) ->
         Return(IF values = <<>> THEN NegInfinity ELSE Num(MaxH(values)))
    [] OTHER -> Throw("Error", Lit("Invalid operation: ") \o StringOf(operation))

RECURSIVE SumProductH(_, _)
SumProductH(x, y) ==
  IF x = <<>> THEN 0 ELSE Head(x).h * Head(y).h + SumProductH(Tail(x), Tail(y))

\* covXY / Math.sqrt(varX * varY), kept as its three parts (each times n*n):
\* the quotient is NaN when a variance is 0, and irrational in general
Pearson(x, y) ==
  LET n == Len(x)
      cov == n * SumProductH(x, y) - SumH(x) * SumH(y)
      varX == n * SumProductH(x, x) - SumH(x) * SumH(x)
      varY == n * SumProductH(y, y) - SumH(y) * SumH(y)
  IN IF varX = 0 \/ varY = 0 THEN NaN
     ELSE [t |-> "pearson", cov |-> cov, varX |-> varX, varY |-> varY]

calculateCorrelation(x, y) ==
  IF Len(x) # Len(y) \/ Len(x) = 0
  THEN Throw("Error", Lit("Arrays must have the same length and not be empty"))
  ELSE Return(Pearson(x, y))

(***************************************************************************)
(* computeStatistic({ operation, field, field2, groupBy, filters }).       *)
(* `args` holds the five arguments (Undefined when absent); `ds` is the    *)
(* value of the module-level `dataset` the call reads.                     *)
(***************************************************************************)
\* the callback with `return false` for a filter field that is not found
FilterKeepsStrict(item, filter, availableFields) ==
  LET actualFilterField ==
        FindField(availableFields, normalizeFieldName(filter.field))
      itemValue == Get(item, actualFilterField.s)
      value == filter.value
      compareValue ==
        IF value.t = "string" THEN Str(toLowerCase(value.s)) ELSE value
      compareItemValue ==
        IF itemValue.t = "string" THEN Str(toLowerCase(itemValue.s)) ELSE itemValue
      operator == filter.operator
  IN IF ~Truthy(actualFilterField) THEN FALSE
     ELSE IF operator = "==" THEN LooseEquals(compareItemValue, compareValue)
     ELSE IF operator = "!=" THEN ~LooseEquals(compareItemValue, compareValue)
     ELSE IF operator = ">" THEN NumLess(parseFloat(value), parseFloat(itemValue))
     ELSE IF operator = "<" THEN NumLess(parseFloat(itemValue), parseFloat(value))
     ELSE IF operator = ">=" THEN NumLessEq(parseFloat(value), parseFloat(itemValue))
     ELSE IF operator = "<=" THEN NumLessEq(parseFloat(itemValue), parseFloat(value))
     ELSE TRUE

\* the callback of filters.every: does `item` pass `filter`?
FilterKeeps(item, filter, availableFields) ==
  LET actualFilterField ==
        FindField(availableFields, normalizeFieldName(filter.field))
      itemValue == Get(item, actualFilterField.s)
      value == filter.value
      compareValue ==
        IF value.t = "string" THEN Str(toLowerCase(value.s)) ELSE value
      compareItemValue ==
        IF itemValue.t = "string" THEN Str(toLowerCase(itemValue.s)) ELSE itemValue
      operator == filter.operator
  IN IF ~Truthy(actualFilterField) THEN TRUE
     ELSE IF operator = "==" THEN LooseEquals(compareItemValue, compareValue)
     ELSE IF operator = "!=" THEN ~LooseEquals(compareItemValue, compareValue)
     ELSE IF operator = ">" THEN NumLess(parseFloat(value), parseFloat(itemValue))
     ELSE IF operator = "<" THEN NumLess(parseFloat(itemValue), parseFloat(value))
     ELSE IF operator = ">=" THEN NumLessEq(parseFloat(value), parseFloat(itemValue))
     ELSE IF operator = "<=" THEN NumLessEq(parseFloat(itemValue), parseFloat(value))
     ELSE TRUE

\* the filter step with filters.some in the place of filters.every
ApplyFiltersSome(rows, filters, availableFields) ==
  IF filters.t = "array"
  THEN SelectSeq(rows, LAMBDA item :
         \E i \in DOMAIN filters.a : FilterKeeps(item, filters.a[i], availableFields))
  ELSE rows

\* let filteredData = dataset; if (filters && Array.isArray(filters)) ...
ApplyFilters(rows, filters, availableFields) ==
  IF filters.t = "array"
  THEN SelectSeq(rows, LAMBDA item :
         \A i \in DOMAIN filters.a : FilterKeeps(item, filters.a[i], availableFields))
  ELSE rows

\* typeof val === 'string' ? parseFloat(val.replace(/[$,]/g, '')) : parseFloat(val)
CoerceNumeric(val) ==
  IF val.t = "string" THEN ParseFloatString(SelectSeq(val.s, LAMBDA c : ~IsCurrencyChar(c)))
  ELSE parseFloat(val)

\* rows.map(item => coerce(item[field])).filter(val => !isNaN(val))
NumericValues(rows, field) ==
  SelectSeq([i \in DOMAIN rows |-> CoerceNumeric(Get(rows[i], field))],
            LAMBDA v : ~isNaN(v))

\* the rows of the correlation loop that push to values1 and values2
PairwiseComplete(rows, field1, field2) ==
  SelectSeq(rows, LAMBDA item :
    /\ ~isNaN(parseFloat(Get(item, field1)))
    /\ ~isNaN(parseFloat(Get(item, field2))))

ParsedColumn(rows, field) == [i \in DOMAIN rows |-> parseFloat(Get(rows[i], field))]

Failure(message) == [output |-> Str(message), success |-> FALSE]

\* the message with the column names listed in their normalized form
FieldNotFoundMessageNormalized(field, availableFields) ==
  Lit("Field \"") \o StringOf(field) \o Lit("\" not found. Available fields are: ")
    \o Join([i \in DOMAIN availableFields |-> normalizeFieldName(availableFields[i])],
            <<",", " ">>)

FieldNotFoundMessage(field, availableFields) ==
  Lit("Field \"") \o StringOf(field) \o Lit("\" not found. Available fields are: ")
    \o Join(availableFields, <<",", " ">>)

\* the branch `if (operation === 'correlation' && field2)`
CorrelationBranch(args, filteredData, availableFields, actualField) ==
  LET actualField2 == FindField(availableFields, normalizeFieldName(args.field2.s))
      complete == PairwiseComplete(filteredData, actualField.s, actualField2.s)
      values1 == ParsedColumn(complete, actualField.s)
      values2 == ParsedColumn(complete, actualField2.s)
      correlation == calculateCorrelation(values1, values2)
      Stats(values) ==
        Obj([mean |-> calculateStat(values, Str(OpMean)).value,
             min |-> calculateStat(values, Str(OpMin)).value,
             max |-> calculateStat(values, Str(OpMax)).value])
  IN IF args.field2.t # "string"
     THEN Throw("TypeError", Lit("name.toLowerCase is not a function"))
     ELSE IF ~Truthy(actualField2)
     THEN Return(Failure(Lit("Second field \"") \o StringOf(args.field2)
                           \o Lit("\" not found for correlation calculation.")))
     ELSE IF correlation.kind = "throw" THEN correlation
     ELSE Return([output |-> Obj([correlation |-> correlation.value,
                                  field1Stats |-> Stats(values1),
                                  field2Stats |-> Stats(values2)]),
                  success |-> TRUE,
                  operation |-> Str(OpCorrelation),
                  fields |-> <<actualField, actualField2>>])

\* the branch without `if (values.length === 0) continue`
GroupedBranchKeepsEmpty(args, filteredData, availableFields, actualField) ==
  LET actualGroupByField ==
        FindField(availableFields, normalizeFieldName(args.groupBy.s))
      KeyOf(item) == StringOf(Get(item, actualGroupByField.s))
      groupKeys == {KeyOf(filteredData[i]) : i \in DOMAIN filteredData}
      Members(k) == SelectSeq(filteredData, LAMBDA item : KeyOf(item) = k)
      Group(k) == IF args.operation = Str(OpCount) THEN Members(k)
                  ELSE NumericValues(Members(k), actualField.s)
      kept == groupKeys
      thrown == {k \in kept : calculateStat(Group(k), args.operation).kind = "throw"}
  IN IF args.groupBy.t # "string"
     THEN Throw("TypeError", Lit("name.toLowerCase is not a function"))
     ELSE IF ~Truthy(actualGroupByField)
     THEN Return(Failure(Lit("GroupBy field \"") \o StringOf(args.groupBy)
                           \o Lit("\" not found")))
     ELSE IF thrown # {}
     THEN calculateStat(Group(CHOOSE k \in thrown : TRUE), args.operation)
     ELSE Return([output |->
                    Obj([k \in kept |-> calculateStat(Group(k), args.operation).value]),
                  success |-> TRUE,
                  operation |-> args.operation,
                  field |-> actualField,
                  groupBy |-> actualGroupByField])

\* the branch `if (groupBy)`
GroupedBranch(args, filteredData, availableFields, actualField) ==
  LET actualGroupByField ==
        FindField(availableFields, normalizeFieldName(args.groupBy.s))
      KeyOf(item) == StringOf(Get(item, actualGroupByField.s))
      groupKeys == {KeyOf(filteredData[i]) : i \in DOMAIN filteredData}
      Members(k) == SelectSeq(filteredData, LAMBDA item : KeyOf(item) = k)
      Group(k) == IF args.operation = Str(OpCount) THEN Members(k)
                  ELSE NumericValues(Members(k), actualField.s)
      kept == {k \in groupKeys : Group(k) # <<>>}
      thrown == {k \in kept : calculateStat(Group(k), args.operation).kind = "throw"}
  IN IF args.groupBy.t # "string"
     THEN Throw("TypeError", Lit("name.toLowerCase is not a function"))
     ELSE IF ~Truthy(actualGroupByField)
     THEN Return(Failure(Lit("GroupBy field \"") \o StringOf(args.groupBy)
                           \o Lit("\" not found")))
     ELSE IF thrown # {}
     THEN calculateStat(Group(CHOOSE k \in thrown : TRUE), args.operation)
     ELSE Return([output |->
                    Obj([k \in kept |-> calculateStat(Group(k), args.operation).value]),
                  success |-> TRUE,
                  operation |-> args.operation,
                  field |-> actualField,
                  groupBy |-> actualGroupByField])

\* the ungrouped aggregation with the count taken over the coerced values
UngroupedBranchCountsNumeric(args, filteredData, actualField) ==
  LET values == NumericValues(filteredData, actualField.s)
      result == calculateStat(values, args.operation)
  IN IF Len(values) = 0
     THEN Return(Failure(
            Lit("No valid ")
              \o (IF args.operation = Str(OpCount) THEN <<>> ELSE Lit("numerical "))
              \o Lit("data available for field \"") \o actualField.s \o Lit("\"")))
     ELSE IF result.kind = "throw" THEN result
     ELSE Return([output |-> result.value,
                  success |-> TRUE,
                  operation |-> args.operation,
                  field |-> actualField,
                  processedCount |-> Len(values),
                  totalCount |-> Len(filteredData)])

\* the last part of computeStatistic, "Handle regular statistics"
UngroupedBranch(args, filteredData, actualField) ==
  LET values ==
        IF args.operation = Str(OpCount)
        THEN [i \in DOMAIN filteredData |-> Get(filteredData[i], actualField.s)]
        ELSE NumericValues(filteredData, actualField.s)
      result == calculateStat(values, args.operation)
  IN IF Len(values) = 0
     THEN Return(Failure(
            Lit("No valid ")
              \o (IF args.operation = Str(OpCount) THEN <<>> ELSE Lit("numerical "))
              \o Lit("data available for field \"") \o actualField.s \o Lit("\"")))
     ELSE IF result.kind = "throw" THEN result
     ELSE Return([output |-> result.value,
                  success |-> TRUE,
                  operation |-> args.operation,
                  field |-> actualField,
                  processedCount |-> Len(values),
                  totalCount |-> Len(filteredData)])

computeStatistic(args, ds) ==
  IF ~Truthy(ds) \/ Len(ds.a) = 0
  THEN Return(Failure(Lit("Dataset is empty or not loaded.")))
  ELSE IF args.field.t # "string"
  THEN Throw("TypeError", Lit("name.toLowerCase is not a function"))
  ELSE
    LET availableFields == Keys(ds.a[1])
        actualField == FindField(availableFields, normalizeFieldName(args.field.s))
        filteredData == ApplyFilters(ds.a, args.filters, availableFields)
    IN IF ~Truthy(actualField)
       THEN Return(Failure(FieldNotFoundMessage(args.field, availableFields)))
       ELSE IF args.operation = Str(OpCorrelation) /\ Truthy(args.field2)
       THEN CorrelationBranch(args, filteredData, availableFields, actualField)
       ELSE IF Truthy(args.groupBy)
       THEN GroupedBranch(args, filteredData, availableFields, actualField)
       ELSE UngroupedBranch(args, filteredData, actualField)

(***************************************************************************)
(* Arrays are objects: an in-place sort shows through every reference to   *)
(* the array.  "dataset" names the array the module-level variable holds,  *)
(* "new" an array allocated during the call.                               *)
(***************************************************************************)
\* a map that writes its results into the array it reads
MapInPlace(source) == source

\* filteredData.map(...): Array.prototype.map returns a new array
MapAllocates(source) == "new"

\* let filteredData = dataset, replaced by the new array of filter() when
\* `filters` is an array
FilteredDataArray(args) == IF args.filters.t = "array" THEN "new" ELSE "dataset"

\* the array `values` of "Handle regular statistics"
ValuesArray(args) == MapAllocates(FilteredDataArray(args))

\* the elements of `values` after values.sort((a, b) => a - b), each given
\* by the row it was read from
SortedByValue(rows, field) ==
  SortSeq(SelectSeq(rows, LAMBDA item : ~isNaN(CoerceNumeric(Get(item, field)))),
          LAMBDA a, b : CoerceNumeric(Get(a, field)).h < CoerceNumeric(Get(b, field)).h)

\* the module-level dataset after computeStatistic(args): calculateStat
\* sorts `values` in place for the median, which the ungrouped branch
\* reaches when it returns success:true; the grouped and the correlation
\* branch fill arrays they create ([]), and no branch writes to a row
DatasetAfterComputeStatistic(args, ds) ==
  LET result == computeStatistic(args, ds)
      availableFields == Keys(ds.a[1])
      actualField == FindField(availableFields, normalizeFieldName(args.field.s))
      filteredData == ApplyFilters(ds.a, args.filters, availableFields)
      ungrouped == /\ ~(args.operation = Str(OpCorrelation) /\ Truthy(args.field2))
                   /\ ~Truthy(args.groupBy)
  IN IF /\ args.operation = Str(OpMedian)
        /\ ValuesArray(args) = "dataset"
        /\ ungrouped
        /\ result.kind = "return"
        /\ result.value.success
     THEN Arr(SortedByValue(filteredData, actualField.s))
     ELSE ds

(***************************************************************************)
(* Objects of the response: Obj(o) with o a record of the own properties.  *)
(***************************************************************************)
\* v[key]: undefined for a missing key and for a primitive; reading a
\* property of null or undefined throws, which the callers test first
Prop(v, key) ==
  IF v.t = "object" /\ key \in DOMAIN v.o THEN v.o[key] ELSE Undefined

\* v[key] = value; on a primitive the assignment has no effect (the file is
\* a CommonJS module in sloppy mode)
SetProp(v, key, value) ==
  IF v.t = "object"
  THEN Obj([k \in DOMAIN v.o \cup {key} |-> IF k = key THEN value ELSE v.o[k]])
  ELSE v

\* { ...a, ...b } of two objects
Spread(a, b) ==
  Obj([k \in DOMAIN a.o \cup DOMAIN b.o |->
         IF k \in DOMAIN b.o THEN b.o[k] ELSE a.o[k]])

\* A string that holds JSON is given by what JSON.parse makes of it;
\* NoJson marks a text JSON.parse rejects.
NoJson == [t |-> "nojson"]
JsonText(v) == [t |-> "jsontext", json |-> v]

\* JSON.parse(text)
JsonParse(text) ==
  IF text.json = NoJson
  THEN Throw("SyntaxError", Lit("Unexpected token in JSON"))
  ELSE Return(text.json)

(***************************************************************************)
(* serverUtils.validateVegaSpec(spec).                                      *)
(***************************************************************************)
RequiredProps == <<"mark", "encoding">>
ValidChannels == {"x", "y", "color", "size", "shape"}

\* Object.keys(v)
ObjectKeys(v) == IF v.t = "object" THEN DOMAIN v.o ELSE {}

\* the validator that returns at the first issue it finds
validateVegaSpecFirstIssue(spec) ==
  IF ~Truthy(spec)
  THEN [isValid |-> FALSE, issues |-> <<Lit("Specification is null or undefined")>>]
  ELSE
    LET missing == SelectSeq(RequiredProps, LAMBDA prop : ~Truthy(Prop(spec, prop)))
        missingIssues ==
          [i \in DOMAIN missing |-> <<"Missing required property: ", missing[i]>>]
        encoding == Prop(spec, "encoding")
        hasValidChannel == \E channel \in ObjectKeys(encoding) : channel \in ValidChannels
        issues == missingIssues \o
                  (IF Truthy(encoding) /\ ~hasValidChannel
                   THEN <<Lit("No valid encoding channels found")>> ELSE <<>>)
    IN [isValid |-> Len(issues) = 0, issues |-> SubSeq(issues, 1, 1)]

validateVegaSpec(spec) ==
  IF ~Truthy(spec)
  THEN [isValid |-> FALSE, issues |-> <<Lit("Specification is null or undefined")>>]
  ELSE
    LET missing == SelectSeq(RequiredProps, LAMBDA prop : ~Truthy(Prop(spec, prop)))
        missingIssues ==
          [i \in DOMAIN missing |-> <<"Missing required property: ", missing[i]>>]
        encoding == Prop(spec, "encoding")
        hasValidChannel == \E channel \in ObjectKeys(encoding) : channel \in ValidChannels
        issues == missingIssues \o
                  (IF Truthy(encoding) /\ ~hasValidChannel
                   THEN <<Lit("No valid encoding channels found")>> ELSE <<>>)
    IN [isValid |-> Len(issues) = 0, issues |-> issues]

(***************************************************************************)
(* validateAndFormatResponse(message).                                     *)
(***************************************************************************)
AnalysisResults == Str(Lit("Analysis results"))
VisualizationResults == Str(Lit("Visualization results"))
StatisticalResults == Str(Lit("Statistical analysis results"))

\* the default filled in only when the key is missing, not when it is empty
WithDefaultDescriptionIfAbsent(response, text) ==
  IF Prop(response, "description") = Undefined
  THEN SetProp(response, "description", text)
  ELSE response

\* if (!response.description) response.description = text; return response
WithDefaultDescription(response, text) ==
  IF ~Truthy(Prop(response, "description"))
  THEN SetProp(response, "description", text)
  ELSE response

\* the decision without its last branch: whatever is left is statistics-only
FormatResponseLenient(response) ==
  IF response.t \in {"null", "undefined"}
  THEN Throw("TypeError", Lit("Cannot read properties of null"))
  ELSE IF Truthy(Prop(response, "chartSpec")) /\ Truthy(Prop(response, "output"))
  THEN Return(WithDefaultDescription(response, AnalysisResults))
  ELSE IF Truthy(Prop(response, "chartSpec"))
  THEN Return(WithDefaultDescription(response, VisualizationResults))
  ELSE Return(WithDefaultDescription(response, StatisticalResults))

\* the body of the try block, on the parsed response
FormatResponse(response) ==
  IF response.t \in {"null", "undefined"}
  THEN Throw("TypeError", Lit("Cannot read properties of null"))
  ELSE IF Truthy(Prop(response, "chartSpec")) /\ Truthy(Prop(response, "output"))
  THEN Return(WithDefaultDescription(response, AnalysisResults))
  ELSE IF Truthy(Prop(response, "chartSpec"))
  THEN Return(WithDefaultDescription(response, VisualizationResults))
  ELSE IF Prop(response, "output") # Undefined
  THEN Return(WithDefaultDescription(response, StatisticalResults))
  ELSE Throw("Error", Lit("Invalid response format: must include chartSpec and/or output"))

validateAndFormatResponse(message) ==
  LET parsed == IF message.t = "jsontext" THEN JsonParse(message) ELSE Return(message)
      formatted == IF parsed.kind = "throw" THEN parsed ELSE FormatResponse(parsed.value)
  IN IF formatted.kind = "throw"
     THEN Throw("Error", Lit("Failed to validate response format"))
     ELSE formatted

(***************************************************************************)
(* Inputs of the statistics engine: datasets of at most MaxRows rows over  *)
(* the columns "MPG" and "Car_Origin", and the requests made of them.      *)
(***************************************************************************)
FieldMPG == <<"M","P","G">>
FieldOrigin == <<"C","a","r","_","O","r","i","g","i","n">>

\* 1, 2, "$3" (a number once the currency sign is stripped) and null
MPGValues == {Whole(1), Whole(2), Str(<<"$","3">>), Null}
OriginValues == {Str(<<"U","S","A">>), Null}

StatRows == {<<<<FieldMPG, m>>, <<FieldOrigin, o>>>> :
               m \in MPGValues, o \in OriginValues}

StatDatasets ==
  {Null} \cup {Arr(rows) : rows \in UNION {[1..n -> StatRows] : n \in 0..MaxRows}}

OpMode == <<"m","o","d","e">>       \* a name calculateStat does not know
Operations ==
  {Str(OpCount), Str(OpMean), Str(OpMedian), Str(OpSum), Str(OpMin), Str(OpMax),
   Str(OpCorrelation), Str(OpMode)}

NameMpg == <<"m","p","g">>                                 \* resolves to MPG
NameCarOrigin == <<"c","a","r"," ","o","r","i","g","i","n">>  \* to Car_Origin
NameZip == <<"z","i","p">>                                 \* to no column

FilterLists ==
  {Undefined,
   Arr(<<[field |-> NameMpg, operator |-> ">", value |-> Whole(1)]>>),
   Arr(<<[field |-> NameCarOrigin, operator |-> "==", value |-> Str(<<"U","s","a">>)]>>),
   Arr(<<[field |-> NameZip, operator |-> "==", value |-> Whole(1)]>>)}

StatRequests ==
  [operation : Operations,
   field : {Str(NameMpg), Str(NameZip), Undefined},
   field2 : {Undefined, Str(<<"M","_","P","G">>), Str(NameZip)},
   groupBy : {Undefined, Str(NameCarOrigin), Str(NameZip)},
   filters : FilterLists]

(***************************************************************************)
(* SpecStat: one call of computeStatistic on a loaded dataset.             *)
(***************************************************************************)
NoCall == [fn |-> "none"]
NoRequests == <<>>

InitStat ==
  /\ dataset \in StatDatasets
  /\ call = NoCall
  /\ req = NoRequests
  /\ sent = NoRequests
  /\ env = [OPENAI_API_KEY |-> TRUE]

\* functionResponse = computeStatistic(functionArgs)
CallComputeStatistic ==
  /\ call = NoCall
  /\ \E args \in StatRequests :
       /\ call' = [fn |-> "computeStatistic", args |-> args,
                   result |-> computeStatistic(args, dataset)]
       /\ dataset' = DatasetAfterComputeStatistic(args, dataset)
  /\ UNCHANGED <<req, sent, env>>

NextStat == CallComputeStatistic

SpecStat == InitStat /\ [][NextStat]_vars

(***************************************************************************)
(* Properties of computeStatistic, checked under SpecStat.                 *)
(***************************************************************************)
StatCalled == call.fn = "computeStatistic"
Loaded == Truthy(dataset) /\ Len(dataset.a) > 0
Columns == Keys(dataset.a[1])
Resolves(name) ==
  name.t = "string" /\ Truthy(FindField(Columns, normalizeFieldName(name.s)))
Resolved(name) == FindField(Columns, normalizeFieldName(name.s)).s
Filtered == ApplyFilters(dataset.a, call.args.filters, Columns)
Returned == call.result.kind = "return"
Failed == Returned /\ call.result.value.success = FALSE
                   /\ call.result.value.output.t = "string"
\* the failure message starts with the literal text `text`
FailedWith(text) == Failed /\ Head(call.result.value.output.s) = text

EndsWith(s, suffix) ==
  /\ Len(suffix) <= Len(s)
  /\ SubSeq(s, Len(s) - Len(suffix) + 1, Len(s)) = suffix

\* C6: computeStatistic never aborts: every call with a field name returns
\* a structured result, a failure being success:false with a string
\* output; no call throws, whatever the operation name.
C6_NeverThrows ==
  (StatCalled /\ call.args.field.t = "string") =>
    /\ Returned
    /\ call.result.value.success \in BOOLEAN
    /\ call.result.value.success = FALSE => call.result.value.output.t = "string"

\* C7: a correlation whose field2 is absent or resolves to no column
\* returns the failure scoped to the second field and never goes on to the
\* grouped or ungrouped aggregation.
C7_CorrelationNeedsField2 ==
  (/\ StatCalled /\ Loaded /\ Resolves(call.args.field)
   /\ call.args.operation = Str(OpCorrelation)
   /\ ~Resolves(call.args.field2))
  => FailedWith("Second field \"")

\* C8: when no usable value remains after filtering (no row for count,
\* no numeric value for the other operations, no pairwise complete row for
\* correlation), the call returns the NoValidData failure: never
\* success:true with an empty mapping, never an exception.
UsableValues ==
  IF call.args.operation = Str(OpCorrelation)
  THEN PairwiseComplete(Filtered, Resolved(call.args.field), Resolved(call.args.field2))
  ELSE IF call.args.operation = Str(OpCount) THEN Filtered
  ELSE NumericValues(Filtered, Resolved(call.args.field))

C8_NoValidDataFails ==
  (/\ StatCalled /\ Loaded /\ Resolves(call.args.field)
   /\ call.args.operation \in Operations \ {Str(OpMode)}
   /\ call.args.operation = Str(OpCorrelation) => Resolves(call.args.field2)
   /\ Truthy(call.args.groupBy) => Resolves(call.args.groupBy)
   /\ UsableValues = <<>>)
  => FailedWith("No valid ")

\* C9: a groupBy that resolves to no column, the main field resolving,
\* makes the call fail with the message scoped to the group field, for
\* every operation, correlation included (stated for the requests that
\* have nothing else wrong: a known operation, a second field that
\* resolves, usable values).
C9_BadGroupByFails ==
  (/\ StatCalled /\ Loaded /\ Resolves(call.args.field)
   /\ Truthy(call.args.groupBy) /\ ~Resolves(call.args.groupBy)
   /\ call.args.operation \in Operations \ {Str(OpMode)}
   /\ call.args.operation = Str(OpCorrelation) => Resolves(call.args.field2)
   /\ UsableValues # <<>>)
  => FailedWith("GroupBy field \"")

\* C10: when the main field names no column of the loaded dataset the
\* call returns success:false with a message that ends with every column
\* name, verbatim and in order, whatever the operation, the filters and
\* the groupBy are.
C10_FieldNotFoundListsColumns ==
  (/\ StatCalled /\ Loaded
   /\ call.args.field.t = "string" /\ ~Resolves(call.args.field))
  => /\ FailedWith("Field \"")
     /\ EndsWith(call.result.value.output.s, Join(Columns, <<",", " ">>))

\* the case of C10: an unknown operation, a filter and an unresolvable
\* groupBy on two rows, and still the list of columns
C10_Witness ==
  /\ StatCalled /\ Loaded /\ Len(dataset.a) = 2
  /\ call.args.field = Str(NameZip)
  /\ call.args.operation = Str(OpMode)
  /\ call.args.groupBy = Str(NameZip)
  /\ call.args.filters.t = "array"
  /\ Failed
  /\ EndsWith(call.result.value.output.s,
              FieldMPG \o <<",", " ">> \o FieldOrigin)

(***************************************************************************)
(* Inputs of the normalizer and of the chart validator.                    *)
(***************************************************************************)
ChartValid ==
  Obj([mark |-> Str(Lit("bar")),
       encoding |-> Obj([x |-> Obj([field |-> Str(FieldOrigin)]),
                         y |-> Obj([aggregate |-> Str(Lit("count"))])])])
ChartNoMark ==
  Obj([encoding |-> Obj([x |-> Obj([field |-> Str(FieldOrigin)])])])
ChartNoChannel ==
  Obj([mark |-> Str(Lit("bar")),
       encoding |-> Obj([tooltip |-> Obj([field |-> Str(FieldMPG)])])])

Absent == [t |-> "absent"]     \* marks a key the object does not have

\* the object { chartSpec, output, description } without its Absent keys
Candidate(chartSpec, output, description) ==
  LET all == [chartSpec |-> chartSpec, output |-> output, description |-> description]
  IN Obj([k \in {k \in DOMAIN all : all[k] # Absent} |-> all[k]])

GroupedOutput == Obj([k \in {<<"U","S","A">>} |-> Whole(25)])

CandidateObjects ==
  {Candidate(c, o, d) :
     c \in {Absent, Null, ChartValid, ChartNoMark},
     o \in {Absent, Undefined, Null, Whole(0), Whole(25), Str(<<>>), GroupedOutput},
     d \in {Absent, Str(<<>>), Str(Lit("Mean MPG by origin"))}}

\* what a JSON text can hold: no key with the value undefined
JsonObjects == {c \in CandidateObjects : \A k \in DOMAIN c.o : c.o[k] # Undefined}

Messages ==
  CandidateObjects \cup {JsonText(c) : c \in JsonObjects}
    \cup {Null, Undefined, Whole(5), JsonText(NoJson), JsonText(Null)}

(***************************************************************************)
(* SpecNorm: one call of validateAndFormatResponse.                        *)
(***************************************************************************)
InitNorm ==
  /\ dataset = Null
  /\ call = NoCall
  /\ req = NoRequests
  /\ sent = NoRequests
  /\ env = [OPENAI_API_KEY |-> TRUE]

CallValidateAndFormatResponse ==
  /\ call = NoCall
  /\ \E message \in Messages :
       call' = [fn |-> "validateAndFormatResponse", message |-> message,
                result |-> validateAndFormatResponse(message)]
  /\ UNCHANGED <<dataset, req, sent, env>>

NextNorm == CallValidateAndFormatResponse

SpecNorm == InitNorm /\ [][NextNorm]_vars

(***************************************************************************)
(* Properties of validateAndFormatResponse, checked under SpecNorm.        *)
(***************************************************************************)
NormCalled == call.fn = "validateAndFormatResponse"
\* the candidate: the message, or what the message parses to
Parsed == IF call.message.t = "jsontext" THEN call.message.json ELSE call.message
HasChartSpec(v) == Truthy(Prop(v, "chartSpec"))
HasOutput(v) == Prop(v, "output") # Undefined
HasDescription(v) == Truthy(Prop(v, "description"))
Envelope == call.result.value

\* C2: a candidate with neither a chartSpec nor a defined output is never
\* given an envelope: the call fails, whatever other keys it carries.
C2_NeitherFails ==
  (NormCalled /\ ~HasChartSpec(Parsed) /\ ~HasOutput(Parsed))
  => call.result.kind = "throw"

\* the case of C2: a candidate with a description and a null chartSpec only
C2_Witness ==
  /\ NormCalled
  /\ Parsed.t = "object"
  /\ DOMAIN Parsed.o = {"chartSpec", "description"}
  /\ HasDescription(Parsed)
  /\ ~HasChartSpec(Parsed)
  /\ call.result.kind = "throw"

\* C3: "has output" is "not undefined" in every row of the table: with a
\* chartSpec, a numeric output (0 included) and no description the default
\* is "Analysis results"; with no chartSpec it is "Statistical analysis
\* results".
C3_DefinedOutputCounts ==
  (/\ NormCalled /\ Parsed.t = "object"
   /\ Prop(Parsed, "output").t = "number"
   /\ Prop(Parsed, "description") = Undefined)
  => /\ call.result.kind = "return"
     /\ Prop(Envelope, "output") = Prop(Parsed, "output")
     /\ Prop(Envelope, "description") =
          IF HasChartSpec(Parsed) THEN AnalysisResults ELSE StatisticalResults

\* C4: every envelope returned has a chartSpec or an output, and a
\* description that is not empty: an absent or empty one is replaced by
\* the default.
C4_EnvelopeComplete ==
  (NormCalled /\ call.result.kind = "return")
  => /\ HasChartSpec(Envelope) \/ HasOutput(Envelope)
     /\ Prop(Envelope, "description").t = "string"
     /\ Prop(Envelope, "description").s # <<>>

\* the case of C4: an empty description on a statistics-only candidate is
\* replaced by the default
C4_Witness ==
  /\ NormCalled
  /\ Parsed.t = "object"
  /\ Prop(Parsed, "description") = Str(<<>>)
  /\ ~HasChartSpec(Parsed)
  /\ Prop(Parsed, "output") = Whole(0)
  /\ call.result.kind = "return"
  /\ Prop(Envelope, "description") = StatisticalResults

(***************************************************************************)
(* The POST /api/generate-response handler.  JavaScript runs a handler     *)
(* without interruption up to its next `await`, so each action is the code *)
(* between two awaits: the requests interleave at the awaited calls to     *)
(* OpenAI only.                                                            *)
(***************************************************************************)
MAX_ITERATIONS == 5
SampleRows == 5

TypeOf(v) ==
  CASE v.t = "undefined" -> "undefined"
    [] v.t = "string" -> "string"
    [] v.t \in {"number", "NaN", "Infinity", "-Infinity"} -> "number"
    [] OTHER -> "object"

\* serverUtils.debugDataset(data), for an array
debugDataset(data) ==
  LET sample == SubSeq(data.a, 1, IF Len(data.a) < SampleRows THEN Len(data.a)
                                  ELSE SampleRows)
      columns == IF Len(sample) > 0 THEN Keys(sample[1]) ELSE <<>>
      Types(col) == {TypeOf(Get(sample[i], col)) : i \in DOMAIN sample}
      mixed == SelectSeq(columns, LAMBDA col : Cardinality(Types(col)) > 1)
      issues == [i \in DOMAIN mixed |->
                   Lit("Mixed types in column \"") \o mixed[i] \o Lit("\"")]
  IN [isValid |-> Len(issues) = 0, issues |-> issues]

\* getDatasetInfo(data): null for no rows, else the columns of the first
\* row (their inferred types and sample values are not read by the handler)
getDatasetInfo(data) ==
  IF ~Truthy(data) \/ Len(data.a) = 0 THEN Null
  ELSE Obj([columns |-> Arr(Keys(data.a[1])), dataTypes |-> Obj(<<>>)])

ErrorBody(error, details) == Obj([error |-> Str(Lit(error)), details |-> details])
Response(status, body) == [status |-> status, body |-> body]
NoResponse == [status |-> 0]

\* the four early returns of the handler: the response it sends before
\* `dataset = data`, or NoResponse when the request is admitted
Rejection(body, environment) ==
  IF ~environment.OPENAI_API_KEY
  THEN Response(500, Obj([error |->
         Str(Lit("Server configuration error: OpenAI API key is missing."))]))
  ELSE IF ~Truthy(body.userQuery) \/ ~Truthy(body.data) \/ body.data.t # "array"
  THEN Response(400, Obj([error |->
         Str(Lit("Invalid request payload. \"userQuery\" and \"data\" are required."))]))
  ELSE IF ~debugDataset(body.data).isValid
  THEN Response(400, Obj([error |-> Str(Lit("Invalid dataset structure")),
                          details |-> Arr(debugDataset(body.data).issues)]))
  ELSE IF getDatasetInfo(body.data) = Null
  THEN Response(400, Obj([error |->
         Str(Lit("Invalid dataset. Unable to extract dataset information."))]))
  ELSE NoResponse

\* the catch block of the handler: the response for a thrown error
\* (error.response, here `status` and `data`, is set for a failed HTTP call)
ErrorResponse(error) ==
  IF "status" \in DOMAIN error
  THEN Response(error.status,
         ErrorBody("An error occurred while processing your request.",
           IF error.status = 429
           THEN Str(Lit("Rate limit exceeded. Please try again later."))
           ELSE IF Truthy(Prop(error.data, "error")) THEN Prop(error.data, "error")
           ELSE Str(error.message)))
  ELSE Response(500,
         ErrorBody("An error occurred while processing your request.",
                   Str(error.message)))

\* { ...functionResults, ...JSON.parse(content) }: the message wins
SpreadAnyFirstWins(a, b) == Spread(b, IF a.t = "object" THEN a ELSE Obj(<<>>))

\* { ...JSON.parse(content), ...functionResults }: a primitive spreads to {}
SpreadAny(a, b) == Spread(IF a.t = "object" THEN a ELSE Obj(<<>>), b)

\* the end of the handler without the check of the chart specification
FinalizeUnvalidated(message, functionResults) ==
  LET parsed == JsonParse(message.content)
      finalResponse == validateAndFormatResponse(SpreadAny(parsed.value, functionResults))
  IN IF ~Truthy(message.content)
     THEN Throw("Error", Lit("Assistant did not provide a final response"))
     ELSE IF parsed.kind = "throw"
     THEN Throw("Error", Lit("Failed to parse final response: ") \o parsed.message)
     ELSE IF finalResponse.kind = "throw"
     THEN Throw("Error", Lit("Failed to parse final response: ") \o finalResponse.message)
     ELSE finalResponse

\* the end of the handler, from `if (!message.content)` to res.json: the
\* envelope to send, or the error thrown to the catch block
Finalize(message, functionResults) ==
  LET parsed == JsonParse(message.content)
      finalResponse == validateAndFormatResponse(SpreadAny(parsed.value, functionResults))
      chartSpec == Prop(finalResponse.value, "chartSpec")
      specValidation == validateVegaSpec(chartSpec)
  IN IF ~Truthy(message.content)
     THEN Throw("Error", Lit("Assistant did not provide a final response"))
     ELSE IF parsed.kind = "throw"
     THEN Throw("Error", Lit("Failed to parse final response: ") \o parsed.message)
     ELSE IF finalResponse.kind = "throw"
     THEN Throw("Error", Lit("Failed to parse final response: ") \o finalResponse.message)
     ELSE IF Truthy(chartSpec) /\ ~specValidation.isValid
     THEN Throw("Error", Lit("Failed to parse final response: ")
                           \o Lit("Invalid chart specification: ")
                           \o Join(specValidation.issues, <<",", " ">>))
     ELSE finalResponse

\* the destructuring of functionArgs by computeStatistic
StatArgs(functionArgs) ==
  [operation |-> Prop(functionArgs, "operation"),
   field |-> Prop(functionArgs, "field"),
   field2 |-> Prop(functionArgs, "field2"),
   groupBy |-> Prop(functionArgs, "groupBy"),
   filters |-> Prop(functionArgs, "filters")]

\* generateVegaSpec returns at once, without a request to OpenAI, when
\* its dataset_info is missing or has no dataTypes
VegaSpecRefused(functionArgs) ==
  \/ ~Truthy(Prop(functionArgs, "dataset_info"))
  \/ ~Truthy(Prop(Prop(functionArgs, "dataset_info"), "dataTypes"))

\* generateVegaSpec once its request to OpenAI has ended with `outcome`
\* (the text of the assistant's message, or a thrown error): the
\* chartSpec gets $schema, data and, if it has none, a default config
generateVegaSpec(outcome) ==
  LET parsedResponse == JsonParse(outcome.value)
      chartSpec == Prop(parsedResponse.value, "chartSpec")
      decorated ==
        IF chartSpec.t # "object" THEN chartSpec
        ELSE
          SetProp(SetProp(IF Truthy(Prop(chartSpec, "config")) THEN chartSpec
                          ELSE SetProp(chartSpec, "config", Obj([axis |-> Obj(<<>>)])),
                          "$schema",
                          Str(Lit("https://vega.github.io/schema/vega-lite/v5.json"))),
                  "data", Obj([values |-> Arr(<<>>)]))
      failure == [success |-> FALSE,
                  error |-> Str(Lit("Error generating chart specification"))]
  IN IF outcome.kind = "throw" THEN failure
     ELSE IF parsedResponse.kind = "throw" THEN failure
     ELSE IF ~Truthy(chartSpec) THEN failure
     ELSE [chartSpec |-> decorated, success |-> TRUE]

(***************************************************************************)
(* Inputs of the handler: two clients, each with its own dataset, and what *)
(* OpenAI may answer.                                                      *)
(***************************************************************************)
Requests == {"r1", "r2"}

UsaRow(mpg) == <<<<FieldMPG, mpg>>, <<FieldOrigin, Str(<<"U","S","A">>)>>>>
DataOf(r) == IF r = "r1" THEN Arr(<<UsaRow(Whole(1))>>) ELSE Arr(<<UsaRow(Whole(2))>>)
MixedData == Arr(<<UsaRow(Whole(1)), UsaRow(Str(<<"$","3">>))>>)

UserQuery == Str(Lit("What is the mean MPG?"))

\* req.body of the requests client r may send
Bodies(r) ==
  [userQuery : {Undefined, UserQuery},
   data : {Undefined, Arr(<<>>), MixedData, DataOf(r)}]

HttpError(status, data) ==
  [kind |-> "throw", name |-> "AxiosError",
   message |-> Lit("Request failed"), status |-> status, data |-> data]

FunctionCallMessage(name, arguments) ==
  [function_call |-> Obj([name |-> name, arguments |-> arguments]),
   content |-> Null]
ContentMessage(content) == [function_call |-> Undefined, content |-> content]

StatCallArguments ==
  {JsonText(Obj([operation |-> Str(OpMean), field |-> Str(NameMpg)])),
   JsonText(Obj([operation |-> Str(OpMean), field |-> Str(NameZip)])),
   JsonText(Obj([operation |-> Str(OpMode), field |-> Str(NameMpg)])),
   JsonText(NoJson)}

VegaCallArguments ==
  {JsonText(Obj([user_query |-> UserQuery])),
   JsonText(Obj([user_query |-> UserQuery,
                 dataset_info |-> Obj([columns |-> Arr(<<>>)])]))}

FinalContents ==
  {Null,
   JsonText(NoJson),
   JsonText(Candidate(Absent, Absent, Str(Lit("Here is the result")))),
   JsonText(Candidate(Absent, Whole(25), Absent)),
   JsonText(Candidate(ChartValid, Absent, Absent)),
   JsonText(Candidate(ChartNoMark, Whole(25), Absent)),
   JsonText(Candidate(Null, Whole(0), Absent))}

\* what `await callOpenAIWithRetry(messages, functions)` ends with
OpenAIOutcomes ==
  {HttpError(429, Obj(<<>>)),
   HttpError(401, Obj([error |-> Obj([message |-> Str(Lit("Incorrect API key"))])])),
   Throw("Error", Lit("Network Error"))}
  \cup {Return(FunctionCallMessage("compute_statistic", a)) : a \in StatCallArguments}
  \cup {Return(FunctionCallMessage("generate_vega_spec", a)) : a \in VegaCallArguments}
  \cup {Return(FunctionCallMessage("describe_dataset", JsonText(Obj(<<>>))))}
  \cup {Return(ContentMessage(c)) : c \in FinalContents}
  \cup {Return([function_call |-> Obj([name |-> "compute_statistic",
                                       arguments |-> JsonText(NoJson)]),
                content |-> JsonText(Candidate(Absent, Whole(25), Absent))])}

\* what the axios.post of generateVegaSpec ends with
VegaOutcomes ==
  {Throw("Error", Lit("Network Error")),
   Return(JsonText(NoJson)),
   Return(JsonText(Obj([description |-> Str(Lit("A bar chart"))]))),
   Return(JsonText(Obj([chartSpec |-> ChartValid,
                        description |-> Str(Lit("A bar chart"))]))),
   Return(JsonText(Obj([chartSpec |-> ChartNoChannel])))}

(***************************************************************************)
(* Spec: the handler serving the requests of the two clients.              *)
(***************************************************************************)
\* the locals of one run of the handler, with two records of its history:
\* `calls` counts its calls of callOpenAIWithRetry and `latest` holds the
\* result of its most recent successful call of each function
NoResults == [output |-> Absent, chartSpec |-> Absent]

Locals(pc, data, iterations, calls, functionResults, latest) ==
  [pc |-> pc, data |-> data, iterations |-> iterations, calls |-> calls,
   functionResults |-> functionResults, latest |-> latest]

Idle == Locals("idle", Undefined, 0, 0, Obj(<<>>), NoResults)

\* while (message.function_call && iterations <= MAX_ITERATIONS)
LoopContinuesOnceMore(message, iterations) ==
  Truthy(message.function_call) /\ iterations <= MAX_ITERATIONS

\* while (message.function_call && iterations < MAX_ITERATIONS)
LoopContinues(message, iterations) ==
  Truthy(message.function_call) /\ iterations < MAX_ITERATIONS

Init ==
  /\ dataset = Null
  /\ call = NoCall
  /\ req = [r \in Requests |-> Idle]
  /\ sent = [r \in Requests |-> NoResponse]
  /\ env \in [OPENAI_API_KEY : BOOLEAN]

\* res.status(..).json(..) or res.json(..), and the handler returns
Finish(r, response) ==
  /\ sent' = [sent EXCEPT ![r] = response]
  /\ req' = [req EXCEPT ![r] = Locals("done", @.data, 0, 0, Obj(<<>>), NoResults)]

\* a handler that stores the data before it validates the payload
DatasetStoredFirst(body, processEnv, current) == body.data

\* the module-level dataset after the handler has run to its first await
\* or to a rejection: `dataset = data` follows the last rejection
DatasetAfterReceive(body, processEnv, current) ==
  IF Rejection(body, processEnv) # NoResponse THEN current ELSE body.data

\* the handler from its start to its first await: the validation of the
\* payload, `dataset = data`, and the first request to OpenAI
Receive(r) ==
  /\ req[r].pc = "idle"
  /\ \E body \in Bodies(r) :
       /\ dataset' = DatasetAfterReceive(body, env, dataset)
       /\ IF Rejection(body, env) # NoResponse
          THEN /\ sent' = [sent EXCEPT ![r] = Rejection(body, env)]
               /\ req' = [req EXCEPT ![r].pc = "done"]
          ELSE /\ req' = [req EXCEPT ![r] = Locals("callOpenAI", body.data, 0, 1,
                                                   Obj(<<>>), NoResults)]
               /\ UNCHANGED sent
  /\ UNCHANGED <<call, env>>

\* one turn of the while loop, up to its await
FunctionCall(r, function_call) ==
  LET functionName == Prop(function_call, "name")
      parsedArgs == JsonParse(Prop(function_call, "arguments"))
      functionArgs ==
        IF functionName = "generate_vega_spec"
           /\ ~Truthy(Prop(parsedArgs.value, "dataset_info"))
        THEN SetProp(parsedArgs.value, "dataset_info", getDatasetInfo(req[r].data))
        ELSE parsedArgs.value
      functionResponse == computeStatistic(StatArgs(functionArgs), dataset)
      iterations == req[r].iterations + 1
  IN IF parsedArgs.kind = "throw"
     THEN /\ Finish(r, ErrorResponse(
                 Throw("Error", Lit("Invalid function arguments: ") \o parsedArgs.message)))
          /\ UNCHANGED call
     ELSE IF functionName = "generate_vega_spec" /\ ~VegaSpecRefused(functionArgs)
     THEN /\ req' = [req EXCEPT ![r].pc = "generateVegaSpec",
                                ![r].iterations = iterations]
          /\ UNCHANGED <<sent, call>>
     ELSE IF functionName = "compute_statistic"
     THEN /\ call' = [fn |-> "computeStatistic", by |-> r, dataset |-> dataset]
          /\ IF functionResponse.kind = "throw"
             THEN Finish(r, ErrorResponse(functionResponse))
             ELSE /\ req' = [req EXCEPT
                       ![r].iterations = iterations,
                       ![r].calls = @ + 1,
                       ![r].functionResults =
                          IF functionResponse.value.success
                          THEN SetProp(@, "output", functionResponse.value.output)
                          ELSE @,
                       ![r].latest.output =
                          IF functionResponse.value.success
                          THEN functionResponse.value.output
                          ELSE @]
                  /\ UNCHANGED sent
     ELSE /\ req' = [req EXCEPT ![r].iterations = iterations, ![r].calls = @ + 1]
          /\ UNCHANGED <<sent, call>>

\* an awaited callOpenAIWithRetry ends: the handler runs on to its next
\* await, or to the response
OpenAIResponds(r) ==
  /\ req[r].pc = "callOpenAI"
  /\ \E outcome \in OpenAIOutcomes :
       IF outcome.kind = "throw"
       THEN Finish(r, ErrorResponse(outcome)) /\ UNCHANGED call
       ELSE IF LoopContinues(outcome.value, req[r].iterations)
       THEN FunctionCall(r, outcome.value.function_call)
       ELSE /\ UNCHANGED call
            /\ LET finalResponse == Finalize(outcome.value, req[r].functionResults)
               IN IF finalResponse.kind = "throw"
                  THEN Finish(r, ErrorResponse(finalResponse))
                  ELSE Finish(r, Response(200, finalResponse.value))
  /\ UNCHANGED <<dataset, env>>

\* the awaited generateVegaSpec ends; the handler asks OpenAI again
VegaResponds(r) ==
  /\ req[r].pc = "generateVegaSpec"
  /\ \E outcome \in VegaOutcomes :
       LET functionResponse == generateVegaSpec(outcome)
       IN req' = [req EXCEPT
            ![r].pc = "callOpenAI",
            ![r].calls = @ + 1,
            ![r].functionResults =
               IF functionResponse.success
               THEN SetProp(@, "chartSpec", functionResponse.chartSpec)
               ELSE @,
            ![r].latest.chartSpec =
               IF functionResponse.success THEN functionResponse.chartSpec ELSE @]
  /\ UNCHANGED <<dataset, call, sent, env>>

Next == \E r \in Requests : Receive(r) \/ OpenAIResponds(r) \/ VegaResponds(r)

Spec == Init /\ [][Next]_vars

(***************************************************************************)
(* Properties of the handler, checked under Spec.                          *)
(***************************************************************************)
\* C1: every computeStatistic call made for a request computes over the
\* dataset that request carried, however the requests interleave.
C1_OwnDataset ==
  call.fn = "computeStatistic" => call.dataset = req[call.by].data

\* what the chart validator asks of a chart specification
WellFormedChart(spec) ==
  /\ Truthy(Prop(spec, "mark"))
  /\ Truthy(Prop(spec, "encoding"))
  /\ ObjectKeys(Prop(spec, "encoding")) \cap ValidChannels # {}

Succeeded(r) == sent[r].status = 200
DetailsMention(r, text) ==
  /\ sent[r].status = 500
  /\ \E i \in DOMAIN Prop(sent[r].body, "details").s :
       Prop(sent[r].body, "details").s[i] = text

\* C5: no success envelope carries a chartSpec the chart validator did
\* not accept: a chartSpec that fails validation ends in an error response.
C5_ChartValidated ==
  \A r \in Requests :
    (Succeeded(r) /\ HasChartSpec(sent[r].body))
    => WellFormedChart(Prop(sent[r].body, "chartSpec"))

\* the case of C5: one request answered with the chart generate_vega_spec
\* made, the other refused for its chart specification
C5_Witness ==
  /\ Succeeded("r1")
  /\ "$schema" \in ObjectKeys(Prop(sent["r1"].body, "chartSpec"))
  /\ DetailsMention("r2", "Invalid chart specification: ")

(***************************************************************************)
(* SpecResolve: field resolution on one-row datasets whose columns are up  *)
(* to MaxColumns distinct names, some of which differ only by case, space  *)
(* or underscore.  The call asks for the count of one column under its     *)
(* normalized name.                                                        *)
(***************************************************************************)
MaxColumns == 3

FieldMPGUnderscore == <<"M","_","P","G">>
FieldCarOriginSpaced == <<"c","a","r"," ","o","r","i","g","i","n">>
FieldYear == <<"Y","e","a","r">>
ColumnNames == {FieldMPG, FieldMPGUnderscore, FieldOrigin, FieldCarOriginSpaced, FieldYear}

\* the sequences of distinct column names
ColumnLists ==
  {cols \in UNION {[1..n -> ColumnNames] : n \in 1..MaxColumns} :
     \A i, j \in DOMAIN cols : cols[i] = cols[j] => i = j}

ResolveDatasets ==
  {Arr(<<[i \in DOMAIN cols |-> <<cols[i], Whole(i)>>]>>) : cols \in ColumnLists}

InitResolve ==
  /\ dataset \in ResolveDatasets
  /\ call = NoCall
  /\ req = NoRequests
  /\ sent = NoRequests
  /\ env = [OPENAI_API_KEY |-> TRUE]

\* computeStatistic({ operation: 'count', field: <normalized name of column c> })
ResolveColumn ==
  /\ call = NoCall
  /\ \E i \in DOMAIN Keys(dataset.a[1]) :
       LET c == Keys(dataset.a[1])[i]
           args == [operation |-> Str(OpCount),
                    field |-> Str(normalizeFieldName(c)),
                    field2 |-> Undefined, groupBy |-> Undefined,
                    filters |-> Undefined]
       IN call' = [fn |-> "computeStatistic", args |-> args, column |-> c,
                   result |-> computeStatistic(args, dataset)]
  /\ UNCHANGED <<dataset, req, sent, env>>

NextResolve == ResolveColumn

SpecResolve == InitResolve /\ [][NextResolve]_vars

\* C11: round trip of field resolution: asked for the normalized form of a
\* column c of a dataset with distinct column names, the engine resolves
\* the field to c itself.
C11_RoundTrip ==
  StatCalled =>
    /\ Returned
    /\ call.result.value.success = TRUE
    /\ call.result.value.field = Str(call.column)

(***************************************************************************)
(* SpecFilter: the filter step of computeStatistic.  A request counts the   *)
(* column MPG of a dataset of at most MaxRows rows under a list of at most *)
(* MaxFilters filters.  The call records the working row set               *)
(* `filteredData` next to the result.                                      *)
(***************************************************************************)
MaxFilters == 2

Filter(field, operator, value) ==
  [field |-> field, operator |-> operator, value |-> value]

\* the value "$3" parses to no number here: the filter step strips nothing
Filters ==
  {Filter(NameMpg, ">", Whole(1)),
   Filter(NameMpg, "<", Str(<<"$","3">>)),
   Filter(NameMpg, ">=", Whole(2)),
   Filter(NameMpg, "<=", Str(<<"2">>)),
   Filter(NameCarOrigin, "==", Str(<<"U","s","a">>)),
   Filter(NameZip, "<", Whole(5))}

\* five rows: numbers, a string that parseFloat rejects, and nulls
FilterRow(mpg, origin) == <<<<FieldMPG, mpg>>, <<FieldOrigin, origin>>>>
FilterRows ==
  {FilterRow(Whole(1), Str(<<"U","S","A">>)),
   FilterRow(Whole(2), Str(<<"U","S","A">>)),
   FilterRow(Whole(2), Null),
   FilterRow(Str(<<"$","3">>), Null),
   FilterRow(Null, Str(<<"U","S","A">>))}

FilterDatasets ==
  {Null} \cup {Arr(rows) : rows \in UNION {[1..n -> FilterRows] : n \in 0..MaxRows}}

FilterArguments ==
  {Undefined} \cup {Arr(fs) : fs \in UNION {[1..n -> Filters] : n \in 0..MaxFilters}}

FilterRequests ==
  [operation : {Str(OpCount)}, field : {Str(NameMpg)}, field2 : {Undefined},
   groupBy : {Undefined}, filters : FilterArguments]

\* the value of `filteredData` after the "Apply filters" step
filteredDataOf(args, ds) ==
  IF ~Truthy(ds) \/ Len(ds.a) = 0 THEN <<>>
  ELSE ApplyFilters(ds.a, args.filters, Keys(ds.a[1]))

InitFilter ==
  /\ dataset \in FilterDatasets
  /\ call = NoCall
  /\ req = NoRequests
  /\ sent = NoRequests
  /\ env = [OPENAI_API_KEY |-> TRUE]

CallWithFilters ==
  /\ call = NoCall
  /\ \E args \in FilterRequests :
       call' = [fn |-> "computeStatistic", args |-> args,
                filteredData |-> filteredDataOf(args, dataset),
                result |-> computeStatistic(args, dataset)]
  /\ UNCHANGED <<dataset, req, sent, env>>

NextFilter == CallWithFilters

SpecFilter == InitFilter /\ [][NextFilter]_vars

(***************************************************************************)
(* Properties of the filter step, checked under SpecFilter.                *)
(***************************************************************************)
FilterList == IF call.args.filters.t = "array" THEN call.args.filters.a ELSE <<>>

\* does row i of the dataset, taken alone, pass the one filter f?
RowPasses(i, f) ==
  ApplyFilters(<<dataset.a[i]>>, Arr(<<f>>), Columns) # <<>>

\* the rows of `rows` whose index is in `keep`, in their order
RECURSIVE Subsequence(_, _, _)
Subsequence(rows, keep, i) ==
  IF i > Len(rows) THEN <<>>
  ELSE (IF i \in keep THEN <<rows[i]>> ELSE <<>>) \o Subsequence(rows, keep, i + 1)

\* C12: the working row set is the dataset's rows that pass every filter
\* of the list, in the dataset's order; it is the whole dataset for an
\* absent or empty list; a longer list never has a row its prefix lacks;
\* and the count of the column reports that many rows.
C12_FilterConjunction ==
  (StatCalled /\ Loaded) =>
    /\ call.filteredData =
         Subsequence(dataset.a,
                     {i \in DOMAIN dataset.a :
                        \A k \in DOMAIN FilterList : RowPasses(i, FilterList[k])},
                     1)
    /\ FilterList = <<>> => call.filteredData = dataset.a
    /\ \A n \in 0..Len(FilterList) :
         \A j \in DOMAIN call.filteredData :
           \E i \in DOMAIN dataset.a :
             /\ dataset.a[i] = call.filteredData[j]
             /\ \A k \in 1..n : RowPasses(i, FilterList[k])
    /\ call.result.value.success => call.result.value.totalCount = Len(call.filteredData)

\* the case of C12: two filters, each of which alone keeps a row the other
\* drops, on two rows of which one passes both
C12_Witness ==
  /\ StatCalled /\ Loaded /\ Len(dataset.a) = 2
  /\ Len(FilterList) = 2
  /\ \E i \in DOMAIN dataset.a :
       RowPasses(i, FilterList[1]) /\ ~RowPasses(i, FilterList[2])
  /\ \E i \in DOMAIN dataset.a :
       RowPasses(i, FilterList[1]) /\ RowPasses(i, FilterList[2])
  /\ Len(call.filteredData) = 1
  /\ call.filteredData = <<dataset.a[2]>>

FilterResolves(f) == Truthy(FindField(Columns, normalizeFieldName(f.field)))
ResolvableFilters == SelectSeq(FilterList, FilterResolves)

\* C13: a filter whose field names no column changes nothing: the working
\* row set is the one of the list without such filters, and a list made
\* of such filters only keeps the whole dataset.
C13_UnresolvableFilterSkipped ==
  (StatCalled /\ Loaded) =>
    /\ call.filteredData = ApplyFilters(dataset.a, Arr(ResolvableFilters), Columns)
    /\ ResolvableFilters = <<>> => call.filteredData = dataset.a

\* the case of C13: an unresolvable filter before one that drops a row
C13_Witness ==
  /\ StatCalled /\ Loaded /\ Len(dataset.a) = 2
  /\ Len(FilterList) = 2
  /\ ~FilterResolves(FilterList[1])
  /\ FilterResolves(FilterList[2])
  /\ Len(call.filteredData) = 1

OrderingOperators == {">", "<", ">=", "<="}

\* the comparison `left operator right` on two numbers in hundredths
Compares(left, operator, right) ==
  CASE operator = ">" -> left > right
    [] operator = "<" -> left < right
    [] operator = ">=" -> left >= right
    [] operator = "<=" -> left <= right

\* C14: under a filter with an ordering operator a row passes exactly when
\* its value and the filter's value both parse as numbers and the numbers
\* compare as the operator says; a row with a null or non-numeric value,
\* or any row under a non-numeric filter value, is dropped, and the call
\* returns.
C14_OrderingNeedsNumbers ==
  (StatCalled /\ Loaded) =>
    /\ Returned
    /\ \A k \in DOMAIN FilterList :
         LET f == FilterList[k]
         IN (f.operator \in OrderingOperators /\ FilterResolves(f)) =>
              \A i \in DOMAIN dataset.a :
                LET itemValue ==
                      parseFloat(Get(dataset.a[i],
                                     FindField(Columns, normalizeFieldName(f.field)).s))
                    value == parseFloat(f.value)
                IN /\ RowPasses(i, f) <=>
                        /\ itemValue.t = "number"
                        /\ value.t = "number"
                        /\ Compares(itemValue.h, f.operator, value.h)
                   /\ ~RowPasses(i, f) =>
                        \A j \in DOMAIN call.filteredData :
                          call.filteredData[j] # dataset.a[i]

\* the case of C14: a row with a null value and a row with a number, of
\* which the filter <= "2" keeps the number only
C14_Witness ==
  /\ StatCalled /\ Loaded /\ Len(dataset.a) = 2
  /\ Get(dataset.a[1], FieldMPG) = Null
  /\ Get(dataset.a[2], FieldMPG) = Whole(2)
  /\ FilterList = <<Filter(NameMpg, "<=", Str(<<"2">>))>>
  /\ call.filteredData = <<dataset.a[2]>>
  /\ Returned

(***************************************************************************)
(* SpecCore: one call of the core on the loaded dataset, either            *)
(* computeStatistic or getDatasetInfo.                                     *)
(***************************************************************************)
\* const datasetInfo = getDatasetInfo(data): it reads the rows through
\* map() and slice(), which allocate
CallGetDatasetInfo ==
  /\ call = NoCall
  /\ call' = [fn |-> "getDatasetInfo", result |-> getDatasetInfo(dataset)]
  /\ UNCHANGED <<dataset, req, sent, env>>

NextCore == CallComputeStatistic \/ CallGetDatasetInfo

SpecCore == InitStat /\ [][NextCore]_vars

\* C15: no call of the core changes the dataset: after computeStatistic
\* (whatever the operation, the median included) and after getDatasetInfo
\* the dataset holds the same rows in the same order with the same values.
C15_DatasetUnchanged ==
  [][call'.fn \in {"computeStatistic", "getDatasetInfo"} => dataset' = dataset]_vars

\* the case of C15: the median of the rows 2, 1 with no filter, where
\* filteredData is the dataset's own array; the rows are still 2, 1
C15_Witness ==
  /\ StatCalled /\ Loaded /\ Len(dataset.a) = 2
  /\ call.args.operation = Str(OpMedian)
  /\ call.args.filters = Undefined
  /\ call.args.groupBy = Undefined
  /\ Get(dataset.a[1], FieldMPG) = Whole(2)
  /\ Get(dataset.a[2], FieldMPG) = Whole(1)
  /\ Returned
  /\ call.result.value.success
  /\ call.result.value.output = Num(150)

(***************************************************************************)
(* Properties of the grouped and ungrouped aggregation, checked under      *)
(* SpecAggregate (defined below).                                          *)
(***************************************************************************)
\* the call went through the branch `if (groupBy)` and returned a mapping
GroupedResult ==
  /\ StatCalled /\ Loaded
  /\ Resolves(call.args.field)
  /\ ~(call.args.operation = Str(OpCorrelation) /\ Truthy(call.args.field2))
  /\ Resolves(call.args.groupBy)
  /\ Returned
  /\ call.result.value.success

\* the key of a row's group: its group-by value as a property key
GroupKeyOf(item) == StringOf(Get(item, Resolved(call.args.groupBy)))
GroupRows(k) == SelectSeq(Filtered, LAMBDA item : GroupKeyOf(item) = k)
\* the values of the group's rows that coerce to a number
GroupValues(k) == NumericValues(GroupRows(k), Resolved(call.args.field))

\* C16: in a grouped result of an operation other than count the keys are
\* the groups with at least one filtered row whose value coerces to a
\* number, a group with none being absent, and each key maps to the
\* statistic of the coerced values of its group.
C16_EmptyGroupsDropped ==
  (GroupedResult /\ call.args.operation # Str(OpCount)) =>
    LET results == call.result.value.output.o
    IN /\ DOMAIN results =
            {GroupKeyOf(Filtered[i]) : i \in
               {i \in DOMAIN Filtered : GroupValues(GroupKeyOf(Filtered[i])) # <<>>}}
       /\ \A k \in DOMAIN results :
            results[k] = calculateStat(GroupValues(k), call.args.operation).value

\* the case of C16: the mean by origin of a "USA" row worth "$3" and a row
\* of the group "null" with no value: the mapping has the key USA only
C16_Witness ==
  /\ GroupedResult
  /\ call.args.operation = Str(OpMean)
  /\ call.args.filters = Undefined
  /\ Len(dataset.a) = 2
  /\ Get(dataset.a[1], FieldMPG) = Str(<<"$","3">>)
  /\ Get(dataset.a[1], FieldOrigin) = Str(<<"U","S","A">>)
  /\ Get(dataset.a[2], FieldMPG) = Null
  /\ Get(dataset.a[2], FieldOrigin) = Null
  /\ DOMAIN call.result.value.output.o = {<<"U","S","A">>}
  /\ call.result.value.output.o[<<"U","S","A">>] = Whole(3)

\* the call went through "Handle regular statistics"
UngroupedCall ==
  /\ StatCalled /\ Loaded
  /\ Resolves(call.args.field)
  /\ ~(call.args.operation = Str(OpCorrelation) /\ Truthy(call.args.field2))
  /\ ~Truthy(call.args.groupBy)

RECURSIVE SumOver(_, _)
\* the sum of the numbers (in hundredths) a mapping holds for the keys
SumOver(results, keys) ==
  IF keys = {} THEN 0
  ELSE LET k == CHOOSE k \in keys : TRUE
       IN results[k].h + SumOver(results, keys \ {k})

\* C17: the ungrouped count is the number of filtered rows, whatever their
\* values are (with no row left the call fails instead); the grouped count
\* maps each stringified group-by value to the number of filtered rows that
\* have it, and these counts add up to the number of filtered rows.
C17_CountSemantics ==
  /\ (UngroupedCall /\ call.args.operation = Str(OpCount)) =>
       IF Filtered = <<>> THEN FailedWith("No valid ")
       ELSE /\ Returned
            /\ call.result.value.success
            /\ call.result.value.output = Whole(Len(Filtered))
  /\ (GroupedResult /\ call.args.operation = Str(OpCount)) =>
       LET results == call.result.value.output.o
       IN /\ DOMAIN results = {GroupKeyOf(Filtered[i]) : i \in DOMAIN Filtered}
          /\ \A k \in DOMAIN results : results[k] = Whole(Len(GroupRows(k)))
          /\ SumOver(results, DOMAIN results) = Len(Filtered) * Scale

\* the case of C17: the count of a column that holds null in both rows
C17_Witness ==
  /\ UngroupedCall
  /\ call.args.operation = Str(OpCount)
  /\ call.args.filters = Undefined
  /\ Len(dataset.a) = 2
  /\ \A i \in DOMAIN dataset.a : Get(dataset.a[i], FieldMPG) = Null
  /\ call.result.value.success
  /\ call.result.value.output = Whole(2)

(***************************************************************************)
(* SpecValues: one call of calculateStat on a list of at most MaxValues    *)
(* numbers, given in hundredths: 0.01, 0.02, 3 and -1.5.                   *)
(***************************************************************************)
MaxValues == 4

Numbers == {Num(1), Num(2), Num(300), Num(0 - 150)}
NumberLists == UNION {[1..n -> Numbers] : n \in 1..MaxValues}
StatOperations ==
  {Str(OpCount), Str(OpMean), Str(OpMedian), Str(OpSum), Str(OpMin), Str(OpMax)}

\* result = calculateStat(values, operation)
CallCalculateStat ==
  /\ call = NoCall
  /\ \E values \in NumberLists, operation \in StatOperations :
       call' = [fn |-> "calculateStat", values |-> values, operation |-> operation,
                result |-> calculateStat(values, operation)]
  /\ UNCHANGED <<dataset, req, sent, env>>

NextValues == CallCalculateStat

SpecValues == InitNorm /\ [][NextValues]_vars

(***************************************************************************)
(* Properties of calculateStat, checked under SpecValues.                  *)
(***************************************************************************)
MedianCalled == call.fn = "calculateStat" /\ call.operation = Str(OpMedian)

\* the k-th smallest of the values, counted with repetitions: a property
\* of the values as a collection, whatever their order
KthSmallest(values, k) ==
  CHOOSE x \in {values[i].h : i \in DOMAIN values} :
    /\ Cardinality({i \in DOMAIN values : values[i].h < x}) < k
    /\ k <= Cardinality({i \in DOMAIN values : values[i].h <= x})

LowerMiddle == KthSmallest(call.values, (Len(call.values) + 1) \div 2)
UpperMiddle == KthSmallest(call.values, (Len(call.values) \div 2) + 1)

\* C18 as stated: the median is the middle element of the ascending sort
\* for an odd length and exactly the average of the two middle elements for
\* an even length, whatever the input order.
C18_MedianExact ==
  MedianCalled =>
    /\ call.result.kind = "return"
    /\ call.result.value.t = "number"
    /\ 2 * call.result.value.h = LowerMiddle + UpperMiddle

\* C18 with the rounding: the median is the middle element (odd length) or
\* the average of the two middle elements (even length) of the ascending
\* sort, rounded to two decimal places, whatever the input order.
C18_MedianRounded ==
  MedianCalled =>
    /\ call.result.kind = "return"
    /\ call.result.value.t = "number"
    /\ LET twice == 2 * call.result.value.h - (LowerMiddle + UpperMiddle)
       IN /\ 0 - 1 <= twice /\ twice <= 1
          /\ Len(call.values) % 2 # 0 => twice = 0

\* the case of C18: 3, 0.02, 0.01 and -1.5, out of order: the two middle
\* elements are 0.01 and 0.02 and their average 0.015 is given to two places
C18_Witness ==
  /\ MedianCalled
  /\ call.values = <<Num(300), Num(2), Num(1), Num(0 - 150)>>
  /\ call.result.value \in {Num(1), Num(2)}

(***************************************************************************)
(* Properties of the payloads of computeStatistic, checked under SpecStat. *)
(***************************************************************************)
Payload == call.result.value
Succeeds == StatCalled /\ Returned /\ Payload.success

\* C19: a success payload has output, success:true, operation and `field`,
\* the column's own name; a correlation has the resolved field2 as well and
\* a grouped result the resolved groupBy; a failure payload has
\* success:false and a string output.
C19_PayloadShape ==
  (StatCalled /\ Returned) =>
    IF Payload.success
    THEN /\ {"output", "operation", "field"} \subseteq DOMAIN Payload
         /\ Payload.operation = call.args.operation
         /\ Payload.field = Str(Resolved(call.args.field))
         /\ (call.args.operation = Str(OpCorrelation) /\ Resolves(call.args.field2)) =>
              /\ "field2" \in DOMAIN Payload
              /\ Payload.field2 = Str(Resolved(call.args.field2))
         /\ (call.args.operation # Str(OpCorrelation) /\ Truthy(call.args.groupBy)) =>
              /\ "groupBy" \in DOMAIN Payload
              /\ Payload.groupBy = Str(Resolved(call.args.groupBy))
    ELSE /\ Payload.success = FALSE
         /\ Payload.output.t = "string"

\* does some filtered row hold a value that does not coerce to a number?
SomeValueRejected ==
  \E i \in DOMAIN Filtered :
    isNaN(CoerceNumeric(Get(Filtered[i], Resolved(call.args.field))))

\* C20: a success payload of mean, median, sum, min or max, grouped or
\* not, has processedCount and totalCount, with processedCount at most
\* totalCount and below it exactly when a filtered row's value was rejected
\* by the coercion.
C20_CountsReported ==
  (Succeeds /\ call.args.operation \in
      {Str(OpMean), Str(OpMedian), Str(OpSum), Str(OpMin), Str(OpMax)}) =>
    /\ {"processedCount", "totalCount"} \subseteq DOMAIN Payload
    /\ Payload.totalCount = Len(Filtered)
    /\ Payload.processedCount <= Payload.totalCount
    /\ Payload.processedCount < Payload.totalCount <=> SomeValueRejected

(***************************************************************************)
(* SpecAggregate: one grouped or ungrouped aggregation of the column MPG   *)
(* over the datasets of SpecStat, with or without a filter.                *)
(***************************************************************************)
AggregateRequests ==
  {args \in StatRequests :
     /\ args.field = Str(NameMpg)
     /\ args.field2 = Undefined
     /\ args.groupBy \in {Undefined, Str(NameCarOrigin)}
     /\ args.filters \in
          {Undefined, Arr(<<[field |-> NameMpg, operator |-> ">", value |-> Whole(1)]>>)}}

CallAggregate ==
  /\ call = NoCall
  /\ \E args \in AggregateRequests :
       /\ call' = [fn |-> "computeStatistic", args |-> args,
                   result |-> computeStatistic(args, dataset)]
       /\ dataset' = DatasetAfterComputeStatistic(args, dataset)
  /\ UNCHANGED <<req, sent, env>>

NextAggregate == CallAggregate

SpecAggregate == InitStat /\ [][NextAggregate]_vars

(***************************************************************************)
(* Type inference: inferVegaLiteType of the backend (server.js) and of the *)
(* frontend (App.js, modelled as AppInferVegaLiteType).                    *)
(***************************************************************************)
sampleSize == 30

Quantitative == "quantitative"
Temporal == "temporal"
Ordinal == "ordinal"
Nominal == "nominal"

MinOf(a, b) == IF a <= b THEN a ELSE b
MaxOf(a, b) == IF a >= b THEN a ELSE b

\* [...values.slice(0, sampleSize), ...values.slice(spread, spread + sampleSize),
\*  ...values.slice(-sampleSize)].filter(v => v !== null && v !== undefined)
SampleValues(values) ==
  LET len == Len(values)
      spread == len \div 3
      all == SubSeq(values, 1, MinOf(len, sampleSize))
               \o SubSeq(values, spread + 1, MinOf(len, spread + sampleSize))
               \o SubSeq(values, MaxOf(1, len - sampleSize + 1), len)
  IN SelectSeq(all, LAMBDA v : v # Null /\ v # Undefined)

\* new Set(sampleValues).size
UniqueCount(sample) == Cardinality({sample[i] : i \in DOMAIN sample})

\* the strings of the model that Date.parse accepts: an ISO date and a
\* month-name date
DateISO == <<"2","0","2","0","-","0","1","-","0","1">>
DateText == <<"J","a","n"," ","1"," ","2","0","2","0">>
DateStrings == {DateISO, DateText}

\* is Date.parse(s) a time value?  A string of digits only is read as a
\* year or a month by V8.
DateParses(s) ==
  \/ s \in DateStrings
  \/ s # <<>> /\ \A i \in DOMAIN s : IsDigit(s[i])

\* !isNaN(new Date(v).getTime()): a number is a time value
IsValidDate(v) ==
  CASE v.t = "number" -> TRUE
    [] v.t = "string" -> DateParses(v.s)
    [] OTHER -> FALSE

\* the inference with the cardinality test first
inferVegaLiteTypeOrdinalFirst(values) ==
  LET sampleValues == SampleValues(values)
  IN IF Len(sampleValues) = 0 THEN Nominal
     ELSE IF /\ UniqueCount(sampleValues) <= 10
             /\ 5 * UniqueCount(sampleValues) <= Len(sampleValues)
     THEN Ordinal
     ELSE IF \A i \in DOMAIN sampleValues : ~isNaN(parseFloat(sampleValues[i]))
     THEN Quantitative
     ELSE IF \A i \in DOMAIN sampleValues : IsValidDate(sampleValues[i])
     THEN Temporal
     ELSE Nominal

\* server.js inferVegaLiteType; uniqueValues.size <= Math.min(10,
\* sampleValues.length * 0.2) is size <= 10 and 5 * size <= length
inferVegaLiteType(values) ==
  LET sampleValues == SampleValues(values)
  IN IF Len(sampleValues) = 0 THEN Nominal
     ELSE IF \A i \in DOMAIN sampleValues : ~isNaN(parseFloat(sampleValues[i]))
     THEN Quantitative
     ELSE IF \A i \in DOMAIN sampleValues : IsValidDate(sampleValues[i])
     THEN Temporal
     ELSE IF /\ UniqueCount(sampleValues) <= 10
             /\ 5 * UniqueCount(sampleValues) <= Len(sampleValues)
     THEN Ordinal
     ELSE Nominal

\* Number(v)
NumberOf(v) ==
  CASE v.t = "string" -> ToNumberString(v.s)
    [] v.t = "number" -> v
    [] v.t = "null" -> Whole(0)
    [] OTHER -> NaN

\* App.js inferVegaLiteType; uniqueValues.size / sampleValues.length < 0.3
\* is 10 * size < 3 * length
AppInferVegaLiteType(values) ==
  LET sampleValues == SampleValues(values)
  IN IF Len(sampleValues) = 0 THEN Nominal
     ELSE IF \A i \in DOMAIN sampleValues :
               ~isNaN(NumberOf(sampleValues[i])) /\ sampleValues[i] # Str(<<>>)
     THEN Quantitative
     ELSE IF \A i \in DOMAIN sampleValues : DateParses(StringOf(sampleValues[i]))
     THEN Temporal
     ELSE IF 10 * UniqueCount(sampleValues) < 3 * Len(sampleValues)
     THEN Ordinal
     ELSE Nominal

(***************************************************************************)
(* SpecInfer: the type of one column of at most MaxColumnValues values,    *)
(* inferred by the backend and by the frontend.                            *)
(***************************************************************************)
MaxColumnValues == 3

ColumnValues ==
  {Whole(1), Str(<<"1">>), Str(DateISO), Str(DateText),
   Str(<<"U","S","A">>), Str(<<"J","a","p","a","n">>), Str(<<>>), Null}

Columnar == UNION {[1..n -> ColumnValues] : n \in 0..MaxColumnValues}

\* dataTypes[col] = inferVegaLiteType(values), in server.js and in App.js
CallInferVegaLiteType ==
  /\ call = NoCall
  /\ \E values \in Columnar :
       call' = [fn |-> "inferVegaLiteType", values |-> values,
                result |-> inferVegaLiteType(values),
                app |-> AppInferVegaLiteType(values)]
  /\ UNCHANGED <<dataset, req, sent, env>>

NextInfer == CallInferVegaLiteType

SpecInfer == InitNorm /\ [][NextInfer]_vars

(***************************************************************************)
(* Properties of the type inference, checked under SpecInfer.              *)
(***************************************************************************)
InferCalled == call.fn = "inferVegaLiteType"
\* the values of the column that are neither null nor undefined
NonNull == SelectSeq(call.values, LAMBDA v : v # Null /\ v # Undefined)
Distinct == Cardinality({NonNull[i] : i \in DOMAIN NonNull})
AllParse == \A i \in DOMAIN NonNull : parseFloat(NonNull[i]).t = "number"
AllDates == \A i \in DOMAIN NonNull : IsValidDate(NonNull[i])
\* the frontend's reading of "parses as a number": Number(v), '' excepted
AppAllParse ==
  \A i \in DOMAIN NonNull :
    NumberOf(NonNull[i]).t = "number" /\ NonNull[i] # Str(<<>>)

\* C21: the inference takes the first of quantitative, temporal, ordinal,
\* nominal that applies: a column whose non-null values all parse as
\* numbers is quantitative whatever the number of its distinct values; a
\* column with no non-null value (an empty one included) is nominal; a
\* temporal column has a value that is no number, and an ordinal one a
\* value that is no date as well.  The backend parses with parseFloat, the
\* frontend with Number.
C21_FirstMatchWins ==
  InferCalled =>
    /\ NonNull = <<>> => (call.result = Nominal /\ call.app = Nominal)
    /\ (NonNull # <<>> /\ AllParse) => call.result = Quantitative
    /\ (NonNull # <<>> /\ AppAllParse) => call.app = Quantitative
    /\ call.result = Temporal => (~AllParse /\ AllDates)
    /\ call.result = Ordinal => (~AllParse /\ ~AllDates)
    /\ call.app \in {Temporal, Ordinal} => ~AppAllParse

\* the case of C21: three times the string "1", one distinct value in a
\* sample of eight, and still quantitative
C21_Witness ==
  /\ InferCalled
  /\ call.values = <<Str(<<"1">>), Str(<<"1">>), Str(<<"1">>)>>
  /\ Len(SampleValues(call.values)) = 8
  /\ call.result = Quantitative

\* distinct sampled values / sample size < 0.3, in whole numbers
BelowThreshold ==
  10 * UniqueCount(SampleValues(call.values)) < 3 * Len(SampleValues(call.values))

\* C22: a column that is neither quantitative nor temporal is ordinal
\* exactly when its distinct sampled values are fewer than 0.3 of the
\* sample, and nominal otherwise, in the backend as in the frontend, which
\* therefore agree on it.
C22_OrdinalThreshold ==
  InferCalled =>
    /\ call.result \notin {Quantitative, Temporal} =>
         call.result = (IF BelowThreshold THEN Ordinal ELSE Nominal)
    /\ call.app \notin {Quantitative, Temporal} =>
         call.app = (IF BelowThreshold THEN Ordinal ELSE Nominal)
    /\ (call.result \notin {Quantitative, Temporal}
          /\ call.app \notin {Quantitative, Temporal}) => call.result = call.app

(***************************************************************************)
(* parseAssistantResponse(responseText, expectedFields) of the chart-only  *)
(* server variant: every throw is caught and gives the same failure.       *)
(***************************************************************************)
fieldsToCheck == <<"x", "y", "color", "tooltip", "detail", "shape", "size", "opacity">>

SchemaV5 == Str(Lit("https://vega.github.io/schema/vega-lite/v5.json"))
SchemaV4 == Str(Lit("https://vega.github.io/schema/vega-lite/v4.json"))

\* chartSpec.$schema.includes('vega-lite/v5'), on the schema strings above
IncludesV5(schema) == schema = SchemaV5

ParseFailure ==
  [chartSpec |-> Null,
   description |-> Str(Lit(
     "Failed to parse the assistant response. Please try a different query."))]

parseAssistantResponse(responseText, expectedFields) ==
  LET parsed == JsonParse(responseText)
      parsedResponse == parsed.value
      chartSpec == Prop(parsedResponse, "chartSpec")
      description == Prop(parsedResponse, "description")
      encoding == Prop(chartSpec, "encoding")
      unexpected ==
        SelectSeq(fieldsToCheck, LAMBDA enc :
          /\ Truthy(Prop(encoding, enc))
          /\ Truthy(Prop(Prop(encoding, enc), "field"))
          /\ \A i \in DOMAIN expectedFields :
               Prop(Prop(encoding, enc), "field") # Str(expectedFields[i]))
  IN IF parsed.kind = "throw" \/ parsedResponse.t \in {"null", "undefined"}
     THEN ParseFailure
     ELSE IF ~(Truthy(chartSpec) /\ Truthy(description)) THEN ParseFailure
     ELSE IF Prop(chartSpec, "$schema").t # "string" THEN ParseFailure
     ELSE IF ~IncludesV5(Prop(chartSpec, "$schema")) THEN ParseFailure
     ELSE IF Truthy(encoding) /\ unexpected # <<>> THEN ParseFailure
     ELSE [chartSpec |-> chartSpec, description |-> description]

(***************************************************************************)
(* SpecVega: one call of the chart validator, or of the chart-only         *)
(* variant's parser, on a chart specification for a dataset with the       *)
(* columns MPG and Car_Origin.                                             *)
(***************************************************************************)
ProfileColumns == <<FieldMPG, FieldOrigin>>

\* a channel names the column as it is, in lower case, or names no column;
\* or it aggregates without a field
ChannelDefinitions ==
  {Obj([field |-> Str(FieldMPG)]), Obj([field |-> Str(NameMpg)]),
   Obj([field |-> Str(NameZip)]), Obj([aggregate |-> Str(Lit("count"))])}

EncodingChannels == {"x", "color", "tooltip"}

Encodings ==
  {Obj(e) : e \in UNION {[ks -> ChannelDefinitions] : ks \in SUBSET EncodingChannels}}

\* the object with the keys of `all` that are not Absent
ObjectWithout(all) == Obj([k \in {k \in DOMAIN all : all[k] # Absent} |-> all[k]])

VegaSpecs ==
  {Null, Undefined, Str(Lit("bar"))} \cup
  {ObjectWithout(("$schema" :> schema) @@ [mark |-> mark, encoding |-> encoding]) :
     schema \in {Absent, SchemaV4, SchemaV5},
     mark \in {Absent, Str(Lit("bar"))},
     encoding \in {Absent, Null} \cup Encodings}

\* specValidation = serverUtils.validateVegaSpec(finalResponse.chartSpec)
CallValidateVegaSpec ==
  /\ call = NoCall
  /\ \E spec \in VegaSpecs :
       call' = [fn |-> "validateVegaSpec", spec |-> spec,
                result |-> validateVegaSpec(spec)]
  /\ UNCHANGED <<dataset, req, sent, env>>

\* parseAssistantResponse(assistantMessage, expectedFields)
CallParseAssistantResponse ==
  /\ call = NoCall
  /\ \E spec \in VegaSpecs :
       call' = [fn |-> "parseAssistantResponse", spec |-> spec,
                result |-> parseAssistantResponse(
                  JsonText(Obj([chartSpec |-> spec,
                                description |-> Str(Lit("MPG by origin"))])),
                  ProfileColumns)]
  /\ UNCHANGED <<dataset, req, sent, env>>

NextVega == CallValidateVegaSpec \/ CallParseAssistantResponse

SpecVega == InitNorm /\ [][NextVega]_vars

(***************************************************************************)
(* Properties of the chart validation, checked under SpecVega.             *)
(***************************************************************************)
ValidatorCalled == call.fn = "validateVegaSpec"
MissingIssue(prop) == <<"Missing required property: ", prop>>
NoChannelIssue == Lit("No valid encoding channels found")
Lacks(prop) == ~Truthy(Prop(call.spec, prop))
LacksChannel ==
  /\ Truthy(Prop(call.spec, "encoding"))
  /\ ObjectKeys(Prop(call.spec, "encoding")) \cap {"x", "y", "color", "size", "shape"} = {}
IssueSet == {call.result.issues[i] : i \in DOMAIN call.result.issues}

\* C23: a null or absent spec is invalid with exactly one issue; any other
\* spec gets the complete list: one issue for each of mark and encoding
\* that is missing and one when the encoding has none of the channels x, y,
\* color, size, shape; isValid is true exactly when the list is empty.
C23_CompleteIssueList ==
  ValidatorCalled =>
    /\ call.result.isValid <=> call.result.issues = <<>>
    /\ IF call.spec \in {Null, Undefined}
       THEN ~call.result.isValid /\ Len(call.result.issues) = 1
       ELSE /\ MissingIssue("mark") \in IssueSet <=> Lacks("mark")
            /\ MissingIssue("encoding") \in IssueSet <=> Lacks("encoding")
            /\ NoChannelIssue \in IssueSet <=> LacksChannel
            /\ Len(call.result.issues) =
                 Cardinality({p \in {"mark", "encoding"} : Lacks(p)})
                   + (IF LacksChannel THEN 1 ELSE 0)

\* the case of C23: no mark and an encoding with the channel tooltip only:
\* two issues
C23_Witness ==
  /\ ValidatorCalled
  /\ call.spec.t = "object"
  /\ "mark" \notin DOMAIN call.spec.o
  /\ ObjectKeys(Prop(call.spec, "encoding")) = {"tooltip"}
  /\ call.result.issues = <<MissingIssue("mark"), NoChannelIssue>>
  /\ ~call.result.isValid

\* the channels of the spec whose `field` names no column of the profile,
\* by normalized exact match
UnresolvedChannels ==
  LET encoding == Prop(call.spec, "encoding")
  IN {c \in ObjectKeys(encoding) :
        /\ Prop(Prop(encoding, c), "field").t = "string"
        /\ ~Truthy(FindField(ProfileColumns,
                             normalizeFieldName(Prop(Prop(encoding, c), "field").s)))}

\* a spec with nothing wrong but, possibly, its fields
WellFormedSpec ==
  /\ call.spec.t = "object"
  /\ Prop(call.spec, "$schema") = SchemaV5
  /\ Truthy(Prop(call.spec, "mark"))
  /\ ObjectKeys(Prop(call.spec, "encoding")) \cap ValidChannels # {}

\* C24: with the dataset's columns at hand, a chart spec is reported invalid
\* when a channel names a field that resolves to no column, with an issue
\* for each such field, and is not rejected for its fields when they all
\* resolve.
C24_FieldsChecked ==
  /\ (ValidatorCalled /\ WellFormedSpec) =>
       /\ UnresolvedChannels # {} => ~call.result.isValid
       /\ Len(call.result.issues) = Cardinality(UnresolvedChannels)
  /\ (call.fn = "parseAssistantResponse" /\ WellFormedSpec) =>
       /\ UnresolvedChannels = {} => call.result.chartSpec = call.spec
       /\ UnresolvedChannels # {} =>
            /\ "issues" \in DOMAIN call.result
            /\ Len(call.result.issues) = Cardinality(UnresolvedChannels)

(***************************************************************************)
(* callOpenAIWithRetry(messages, functions, retries = 3).  The recursive   *)
(* call is in tail position, so the call is a loop over its attempts.      *)
(***************************************************************************)
DefaultRetries == 3

\* error.response && error.response.status === 429
RateLimited(error) == "status" \in DOMAIN error /\ error.status = 429

\* a function that tries again after any HTTP error status
ShouldRetryAnyStatus(error, retries) == "status" \in DOMAIN error /\ retries > 0

\* the condition of the catch block under which the call is made again
ShouldRetry(error, retries) == RateLimited(error) /\ retries > 0

\* parseInt(s, 10) of a header: as parseFloat on strings without a point
parseInt(s) == ParseFloatString(s)

\* the delay before the next attempt, in milliseconds (NaN fires at once)
retryAfter(error) ==
  IF Truthy(Prop(error.headers, "retry-after"))
  THEN IF isNaN(parseInt(Prop(error.headers, "retry-after").s)) THEN NaN
       ELSE Whole(1000 * (parseInt(Prop(error.headers, "retry-after").s).h \div Scale))
  ELSE Whole(1000)

RetryAfterHeaders ==
  {Obj(<<>>), Obj([k \in {"retry-after"} |-> Str(<<"2">>)]),
   Obj([k \in {"retry-after"} |-> Str(<<"W","e","d">>)])}

\* what one axios.post of the function may end with
AttemptOutcomes ==
  {Return(Obj([choices |-> Arr(<<ContentMessage(Null)>>)])),
   Return(Obj([choices |-> Arr(<<ContentMessage(JsonText(NoJson))>>)])),
   Throw("Error", Lit("Network Error")),
   HttpError(500, Obj(<<>>)) @@ [headers |-> Obj(<<>>)]}
  \cup {HttpError(429, Obj(<<>>)) @@ [headers |-> h] : h \in RetryAfterHeaders}

RetryCall(pc, initial, retries, attempts, outcomes, delay, result) ==
  [fn |-> "callOpenAIWithRetry", pc |-> pc, initial |-> initial,
   retries |-> retries, attempts |-> attempts, outcomes |-> outcomes,
   delay |-> delay, result |-> result]

\* the function is called and posts its first request
CallOpenAIWithRetry ==
  /\ call = NoCall
  /\ \E retries \in 0..DefaultRetries :
       call' = RetryCall("post", retries, retries, 1, <<>>, Undefined, Undefined)
  /\ UNCHANGED <<dataset, req, sent, env>>

\* the awaited axios.post ends: return response.data, wait before the next
\* attempt, or throw the error
AxiosResponds ==
  /\ call # NoCall
  /\ call.pc = "post"
  /\ \E outcome \in AttemptOutcomes :
       LET outcomes == Append(call.outcomes, outcome)
       IN IF outcome.kind = "return"
          THEN call' = [call EXCEPT !.pc = "done", !.outcomes = outcomes,
                                    !.result = outcome]
          ELSE IF ShouldRetry(outcome, call.retries)
          THEN call' = [call EXCEPT !.pc = "sleep", !.outcomes = outcomes,
                                    !.delay = retryAfter(outcome)]
          ELSE call' = [call EXCEPT !.pc = "done", !.outcomes = outcomes,
                                    !.result = outcome]
  /\ UNCHANGED <<dataset, req, sent, env>>

\* the timer of the delay fires: callOpenAIWithRetry(.., retries - 1)
TimerFires ==
  /\ call # NoCall
  /\ call.pc = "sleep"
  /\ call' = [call EXCEPT !.pc = "post", !.retries = @ - 1, !.attempts = @ + 1,
                          !.delay = Undefined]
  /\ UNCHANGED <<dataset, req, sent, env>>

NextRetry == CallOpenAIWithRetry \/ AxiosResponds \/ TimerFires

SpecRetry == InitNorm /\ [][NextRetry]_vars

(***************************************************************************)
(* Properties of callOpenAIWithRetry, checked under SpecRetry.             *)
(***************************************************************************)
RetryCalled == call.fn = "callOpenAIWithRetry"

\* the retries left when attempt i was made
RetriesAt(i) == call.initial - (i - 1)

\* attempt i ended with a 429 while retries remained
Retryable(i) == RateLimited(call.outcomes[i]) /\ RetriesAt(i) > 0

\* C26: the call makes at most retries + 1 attempts (4 by default), each
\* further attempt follows a 429 received while retries remained and has
\* one retry less; the call ends with the first outcome that is a success,
\* an error other than 429, or a 429 with no retry left, and returns or
\* throws that outcome.
C26_BoundedRetry ==
  RetryCalled =>
    /\ call.attempts <= call.initial + 1
    /\ call.attempts <= DefaultRetries + 1
    /\ call.retries = RetriesAt(call.attempts)
    /\ call.retries >= 0
    /\ Len(call.outcomes) = (IF call.pc = "post" THEN call.attempts - 1
                             ELSE call.attempts)
    /\ \A i \in DOMAIN call.outcomes :
         IF Retryable(i)
         THEN i < call.attempts \/ call.pc = "sleep"
         ELSE /\ i = call.attempts
              /\ call.pc = "done"
              /\ call.result = call.outcomes[i]

\* the cases of C26: the fourth attempt of a default call ends with a 429,
\* which is thrown
C26_Witness ==
  /\ RetryCalled
  /\ call.pc = "done"
  /\ call.initial = DefaultRetries
  /\ call.attempts = 4
  /\ call.result.kind = "throw"
  /\ RateLimited(call.result)

(***************************************************************************)
(* FairSpec: the handler serving one request, when every awaited call      *)
(* settles.  An axios request ends with a response or an error, and        *)
(* callOpenAIWithRetry makes a bounded number of them, so a handler        *)
(* waiting at an await is resumed.  Another request changes nothing the    *)
(* handler's control flow reads but the dataset, which is any dataset here *)
(* as far as the flow goes: computeStatistic returns or throws.            *)
(***************************************************************************)
Client == "r1"

NextSingle == Receive(Client) \/ OpenAIResponds(Client) \/ VegaResponds(Client)

FairSpec ==
  /\ Init
  /\ [][NextSingle]_vars
  /\ WF_vars(OpenAIResponds(Client))
  /\ WF_vars(VegaResponds(Client))

InFlight(r) == req[r].pc \in {"callOpenAI", "generateVegaSpec"}
Answered(r) == req[r].pc = "done" /\ sent[r] # NoResponse

\* the message asks for a function call and has no content
AsksAgain(message) == Truthy(message.function_call) /\ ~Truthy(message.content)

\* the counters stay within their bounds, a request has a response exactly
\* when its handler has returned, and after the fifth execution a message
\* that asks for one more call ends the loop and is refused
WithinBounds ==
  \A r \in Requests :
    /\ req[r].iterations <= MAX_ITERATIONS
    /\ req[r].calls <= MAX_ITERATIONS + 1
    /\ sent[r] # NoResponse <=> req[r].pc = "done"
    /\ (req[r].pc = "callOpenAI" /\ req[r].iterations = MAX_ITERATIONS) =>
         \A outcome \in OpenAIOutcomes :
           (outcome.kind = "return" /\ AsksAgain(outcome.value)) =>
             /\ ~LoopContinues(outcome.value, req[r].iterations)
             /\ Finalize(outcome.value, req[r].functionResults).kind = "throw"
             /\ ErrorResponse(Finalize(outcome.value, req[r].functionResults)).status = 500

\* a response, once sent, is final; and the step a handler takes after its
\* fifth execution is its last
OneResponse ==
  \A r \in Requests :
    /\ sent[r] # NoResponse => sent'[r] = sent[r]
    /\ (req[r].iterations = MAX_ITERATIONS /\ req[r].pc = "callOpenAI"
        /\ req'[r] # req[r]) => req'[r].pc = "done"

\* C25: every admitted request ends with exactly one HTTP response, after at
\* most MAX_ITERATIONS function calls and MAX_ITERATIONS + 1 calls of
\* callOpenAIWithRetry by the handler; a message that still asks for a
\* function call, without content, after the fifth execution ends the
\* request with an error response.
C25_Terminates ==
  /\ []WithinBounds
  /\ [][OneResponse]_vars
  /\ \A r \in Requests : InFlight(r) ~> Answered(r)

\* the case of C25: a handler that has executed five function calls waits
\* for its sixth call of callOpenAIWithRetry
C25_Witness ==
  \E r \in Requests :
    /\ sent[r] = NoResponse
    /\ req[r].pc = "callOpenAI"
    /\ req[r].iterations = MAX_ITERATIONS
    /\ req[r].calls = MAX_ITERATIONS + 1

(***************************************************************************)
(* Properties of the results of function calls, checked under Spec.        *)
(***************************************************************************)
\* functionResults holds, for each function, the result of its most recent
\* successful call and nothing else
ResultsAreLatest(locals) ==
  /\ Prop(locals.functionResults, "output") =
       (IF locals.latest.output = Absent THEN Undefined ELSE locals.latest.output)
  /\ Prop(locals.functionResults, "chartSpec") =
       (IF locals.latest.chartSpec = Absent THEN Undefined ELSE locals.latest.chartSpec)

EnvelopeSent(r) == sent[r] = NoResponse /\ sent'[r] # NoResponse /\ sent'[r].status = 200

LatestInEnvelope ==
  \A r \in Requests :
    /\ ResultsAreLatest(req[r]) /\ ResultsAreLatest(req'[r])
    /\ EnvelopeSent(r) =>
         /\ req[r].latest.output # Absent =>
              Prop(sent'[r].body, "output") = req[r].latest.output
         /\ req[r].latest.chartSpec # Absent =>
              Prop(sent'[r].body, "chartSpec") = req[r].latest.chartSpec

\* C27: the output (the chartSpec) of the envelope of a request is the
\* result of its most recent successful compute_statistic
\* (generate_vega_spec) call when there is one, whatever the final message
\* holds under that key; a failed call leaves the recorded result as it is.
C27_LatestResultWins == [][LatestInEnvelope]_vars

\* the case of C27: an envelope whose output is the computed mean of the
\* request's dataset, where the final messages of the model hold 25 or 0
C27_Witness ==
  /\ sent["r2"] # NoResponse
  /\ sent["r2"].status = 200
  /\ Prop(sent["r2"].body, "output") = Whole(2)

(***************************************************************************)
(* Properties of the module-level dataset, checked under Spec.             *)
(***************************************************************************)
WasAdmitted(locals) == locals.data # Undefined
Rejected(r) == req[r].pc = "idle" /\ req'[r].pc = "done"
AdmittedNow(r) == req[r].pc = "idle" /\ req'[r].pc = "callOpenAI"

DatasetReplacedOnAdmission ==
  /\ \A r \in Requests : Rejected(r) => dataset' = dataset
  /\ dataset' # dataset =>
       \E r \in Requests :
         /\ AdmittedNow(r)
         /\ dataset' = req'[r].data
         /\ dataset'.t = "array"
         /\ dataset'.a # <<>>
  /\ \A r \in Requests : AdmittedNow(r) => dataset' = req'[r].data
  /\ dataset' = Null \/ \E r \in Requests : WasAdmitted(req'[r]) /\ dataset' = req'[r].data

\* C28: a request rejected before processing leaves the module-level
\* dataset as it was; the dataset changes only when a request is admitted,
\* to the non-empty data array of that request, so it is null or the data
\* of the last admitted request.
C28_DatasetFrame == [][DatasetReplacedOnAdmission]_vars

\* the case of C28: one request was admitted, the other was rejected with
\* status 400, and the dataset is the data of the admitted one
C28_Witness ==
  /\ WasAdmitted(req["r1"])
  /\ dataset = DataOf("r1")
  /\ req["r2"].pc = "done"
  /\ ~WasAdmitted(req["r2"])
  /\ sent["r2"].status = 400

(***************************************************************************)
(* The chat component of the frontend (Chatbot in App.js).  React runs an  *)
(* event handler, with the state updates it makes, to its first await and  *)
(* renders before the next event, so the handler reads the state of the    *)
(* latest render; the code after the await runs in one piece when the      *)
(* request settles.                                                        *)
(***************************************************************************)
MaxQueries == 2

Trim(s) == TrimEnd(TrimStart(s))

PlaceholderText == Str(Lit("Working on it... this may take a few seconds."))

ChatMessage(id, sender, text) ==
  [id |-> id, sender |-> sender, text |-> text, isLoading |-> FALSE,
   chartSpec |-> Undefined]

\* generateMessageId: the n-th id generated (time and a random suffix make
\* the ids distinct)
generateMessageId(n) == Str(NatToChars(n))

\* validateDataset(data): the error text, or null (rows are objects here)
validateDataset(data) ==
  IF ~Truthy(data) \/ data.a = <<>>
  THEN Str(Lit("The uploaded dataset is empty. Please provide a valid CSV file."))
  ELSE IF \E i \in DOMAIN data.a[1] : Trim(Keys(data.a[1])[i]) = <<>>
  THEN Str(Lit("Dataset contains empty column headers. Please fix your CSV file."))
  ELSE Null

\* debugDataFlow.validatePayload(data, userQuery, getDatasetInfo(data)):
\* datasetInfo has the columns of the first row and a type for each
validatePayload(data, query) ==
  LET noData == ~Truthy(data) \/ data.a = <<>>
      noColumns == ~noData /\ data.a[1] = <<>>
      issues ==
        (IF noData THEN <<Lit("Data array is empty or null"),
                          Lit("Dataset info is null")>> ELSE <<>>)
        \o (IF noColumns THEN <<Lit("No columns defined in dataset info"),
                                Lit("No data types defined in dataset info")>>
            ELSE <<>>)
        \o (IF Trim(query) = <<>> THEN <<Lit("Query is empty")>> ELSE <<>>)
  IN [isValid |-> issues = <<>>, issues |-> issues]

\* debugDataFlow.validateResponse(response.data)
validateResponse(response) ==
  LET chartSpec == Prop(response, "chartSpec")
      issues ==
        (IF Truthy(chartSpec) /\ ~Truthy(Prop(chartSpec, "mark"))
         THEN <<Lit("Chart spec missing 'mark' property")>> ELSE <<>>)
        \o (IF Truthy(chartSpec) /\ ~Truthy(Prop(chartSpec, "encoding"))
            THEN <<Lit("Chart spec missing 'encoding' property")>> ELSE <<>>)
        \o (IF Truthy(Prop(response, "error"))
            THEN <<Lit("Server error: ") \o StringOf(Prop(response, "error"))>>
            ELSE <<>>)
  IN IF ~Truthy(response)
     THEN [isValid |-> FALSE, issues |-> <<Lit("Response is null")>>]
     ELSE [isValid |-> issues = <<>>, issues |-> issues]

\* formatStatisticOutput(output): "key: value" lines for an object (the
\* objects here have one key), output.toString() otherwise, which throws
\* for null
formatStatisticOutput(output) ==
  IF output.t = "object"
  THEN LET key == CHOOSE k \in DOMAIN output.o : TRUE
       IN Return(Str(key \o <<":", " ">> \o StringOf(output.o[key])))
  ELSE IF output.t = "null"
  THEN Throw("TypeError", Lit("Cannot read properties of null (reading 'toString')"))
  ELSE Return(Str(StringOf(output)))

\* sampleData(data): the data itself up to 1000 rows
sampleData(data) == data

\* the try block after the await: the new text and chartSpec of the
\* placeholder, or the error thrown
Replacement(text, chartSpec) == Return([text |-> text, chartSpec |-> chartSpec])

TryBlock(outcome, data) ==
  LET response == outcome.value
      responseValidation == validateResponse(response)
      chartSpec == Prop(response, "chartSpec")
      description == Prop(response, "description")
      output == Prop(response, "output")
      error == Prop(response, "error")
      formattedOutput == formatStatisticOutput(output)
  IN IF outcome.kind = "throw" THEN outcome
     ELSE IF ~responseValidation.isValid
     THEN Throw("Error", Join(responseValidation.issues, <<",", " ">>))
     ELSE IF Truthy(error) THEN Replacement(error, Absent)
     ELSE IF Truthy(chartSpec) /\ Truthy(description)
     THEN Replacement(description,
                      SetProp(chartSpec, "data", Obj([values |-> sampleData(data)])))
     ELSE IF output # Undefined
     THEN IF formattedOutput.kind = "throw" THEN formattedOutput
          ELSE Replacement(formattedOutput.value, Absent)
     ELSE Throw("Error", Lit("Invalid response format from server"))

\* the catch block: the text shown for a thrown error
CatchMessage(error) ==
  LET errorMessage == Lit("An error occurred while processing your request. ")
  IN IF "status" \in DOMAIN error
     THEN IF error.status = 429
          THEN Str(Lit("Rate limit exceeded. Please wait a moment and try again."))
          ELSE IF Truthy(Prop(error.data, "error"))
          THEN Str(errorMessage \o StringOf(Prop(error.data, "error")))
          ELSE Str(errorMessage \o error.message)
     ELSE Str(errorMessage \o error.message)

\* prevHistory.map(message => message.id === currentPlaceholderId ? .. : message)
ReplaceIn(history, currentPlaceholderId, text, chartSpec) ==
  [j \in DOMAIN history |->
     IF history[j].id = currentPlaceholderId
     THEN [history[j] EXCEPT !.text = text, !.isLoading = FALSE,
                             !.chartSpec = IF chartSpec = Absent THEN @ ELSE chartSpec]
     ELSE history[j]]

\* a component that leaves the history as it is when its try block throws
HistoryAfterWithoutCatch(history, currentPlaceholderId, outcome, data) ==
  IF TryBlock(outcome, data).kind = "throw" THEN history
  ELSE ReplaceIn(history, currentPlaceholderId,
                 TryBlock(outcome, data).value.text,
                 TryBlock(outcome, data).value.chartSpec)

\* the conversation history after the try and catch blocks
HistoryAfter(history, currentPlaceholderId, outcome, data) ==
  IF TryBlock(outcome, data).kind = "throw"
  THEN ReplaceIn(history, currentPlaceholderId,
                 CatchMessage(TryBlock(outcome, data)), Absent)
  ELSE ReplaceIn(history, currentPlaceholderId,
                 TryBlock(outcome, data).value.text,
                 TryBlock(outcome, data).value.chartSpec)

\* a guard that looks at the query only
BlockedOnEmptyQuery(userQuery, isLoading) == Trim(userQuery) = <<>>

\* if (!userQuery.trim() || isLoading) return
Blocked(userQuery, isLoading) == Trim(userQuery) = <<>> \/ isLoading

(***************************************************************************)
(* SpecChat: the user types, uploads datasets, sends queries (at most      *)
(* MaxQueries presses of Enter or Send) and clears the messages, while the *)
(* backend answers.  `dataset` is the data prop, `req` the component's     *)
(* state, `sent` the requests in flight and `call` the last invocation of  *)
(* handleSendQuery.                                                        *)
(***************************************************************************)
TypedQueries == {<<>>, <<" ">>, UserQuery.s}

\* a dataset, one with a blank column header, one whose rows have no column
Uploads ==
  {DataOf("r1"), Arr(<<<<<<<<" ">>, Whole(1)>>>>>>), Arr(<<<<>>>>)}

\* what the axios.post of the component may end with
SendOutcomes ==
  {Return(Candidate(ChartValid, Absent, Str(Lit("MPG by origin")))),
   Return(Candidate(ChartNoMark, Absent, Str(Lit("MPG by origin")))),
   Return(Candidate(Absent, GroupedOutput, Str(Lit("Mean MPG by origin")))),
   Return(Candidate(Absent, Null, Absent)),
   Return(Candidate(Absent, Absent, Str(Lit("MPG by origin")))),
   Return(Null),
   HttpError(429, ErrorBody("An error occurred while processing your request.",
                            Str(Lit("Rate limit exceeded. Please try again later.")))),
   HttpError(400, Obj([error |-> Str(Lit("Invalid dataset structure"))])),
   Throw("Error", Lit("Network Error"))}

ChatState(userQuery, conversationHistory, isLoading, placeholderIdRef, generated) ==
  [userQuery |-> userQuery, conversationHistory |-> conversationHistory,
   isLoading |-> isLoading, placeholderIdRef |-> placeholderIdRef,
   generated |-> generated]

Invocation(invocations, outcome) ==
  [fn |-> "handleSendQuery", invocations |-> invocations, outcome |-> outcome]

InitChat ==
  /\ dataset = Null
  /\ call = Invocation(0, "none")
  /\ req = ChatState(<<>>, <<>>, FALSE, Null, 0)
  /\ sent = <<>>
  /\ env = [OPENAI_API_KEY |-> TRUE]

\* onChange of the input: setUserQuery(e.target.value)
TypeQuery ==
  /\ \E q \in TypedQueries : q # req.userQuery /\ req' = [req EXCEPT !.userQuery = q]
  /\ UNCHANGED <<dataset, call, sent, env>>

\* handleFileUploaded: setData(parsedData)
UploadData ==
  /\ \E d \in Uploads : d # dataset /\ dataset' = d
  /\ UNCHANGED <<call, req, sent, env>>

\* the handler answers at once, without a request
AnswerAtOnce(text, outcome) ==
  /\ req' = [req EXCEPT
       !.conversationHistory =
          @ \o <<ChatMessage(generateMessageId(req.generated + 1), "user",
                             Str(req.userQuery)),
                 ChatMessage(generateMessageId(req.generated + 2), "assistant",
                             text)>>,
       !.generated = @ + 2,
       !.isLoading = FALSE,
       !.userQuery = <<>>]
  /\ call' = Invocation(call.invocations + 1, outcome)
  /\ UNCHANGED sent

\* handleSendQuery, on Enter or on Send, up to its return or its await
HandleSendQuery ==
  /\ call.invocations < MaxQueries
  /\ IF Blocked(req.userQuery, req.isLoading)
     THEN /\ call' = Invocation(call.invocations + 1, "blocked")
          /\ UNCHANGED <<req, sent>>
     ELSE IF ~Truthy(dataset)
     THEN AnswerAtOnce(Str(Lit("Please upload a dataset before sending a message.")),
                       "noData")
     ELSE IF validateDataset(dataset) # Null
     THEN AnswerAtOnce(validateDataset(dataset), "invalidDataset")
     ELSE IF ~validatePayload(dataset, req.userQuery).isValid
     THEN AnswerAtOnce(Str(Lit("Error: ")
                             \o Join(validatePayload(dataset, req.userQuery).issues,
                                     <<",", " ">>)),
                       "invalidPayload")
     ELSE LET placeholderMessageId == generateMessageId(req.generated + 2)
          IN /\ req' = [req EXCEPT
                  !.conversationHistory =
                     @ \o <<ChatMessage(generateMessageId(req.generated + 1),
                                        "user", Str(req.userQuery)),
                            [ChatMessage(placeholderMessageId, "assistant",
                                         PlaceholderText)
                               EXCEPT !.isLoading = TRUE]>>,
                  !.generated = @ + 2,
                  !.isLoading = TRUE,
                  !.placeholderIdRef = placeholderMessageId]
             /\ sent' = Append(sent, [placeholder |-> placeholderMessageId,
                                      userQuery |-> req.userQuery,
                                      data |-> dataset])
             /\ call' = Invocation(call.invocations + 1, "sent")
  /\ UNCHANGED <<dataset, env>>

\* the awaited axios.post of a request in flight settles: the try, catch
\* and finally blocks
ServerResponds ==
  /\ \E i \in DOMAIN sent : \E outcome \in SendOutcomes :
       /\ req' = [req EXCEPT
            !.conversationHistory =
               HistoryAfter(@, req.placeholderIdRef, outcome, sent[i].data),
            !.isLoading = FALSE,
            !.placeholderIdRef = Null,
            !.userQuery = <<>>]
       /\ sent' = SubSeq(sent, 1, i - 1) \o SubSeq(sent, i + 1, Len(sent))
  /\ UNCHANGED <<dataset, call, env>>

\* Clear Messages, a button disabled while isLoading
HandleClearMessages ==
  /\ ~req.isLoading
  /\ req' = [req EXCEPT !.conversationHistory = <<>>, !.userQuery = <<>>]
  /\ req' # req
  /\ UNCHANGED <<dataset, call, sent, env>>

NextChat ==
  TypeQuery \/ UploadData \/ HandleSendQuery \/ ServerResponds \/ HandleClearMessages

SpecChat == InitChat /\ [][NextChat]_vars

\* the request the component waits for settles
FairChat == SpecChat /\ WF_vars(ServerResponds)

(***************************************************************************)
(* Properties of the chat component.                                       *)
(***************************************************************************)
History == req.conversationHistory
MessageIds == {generateMessageId(n) : n \in 1..(2 * MaxQueries)}

IsPlaceholder(id) ==
  \E i \in DOMAIN History : History[i].id = id /\ History[i].isLoading
IsReplaced(id) ==
  \E i \in DOMAIN History :
    /\ History[i].id = id
    /\ ~History[i].isLoading
    /\ History[i].sender = "assistant"
    /\ History[i].text # PlaceholderText

\* a step that changes a history with a placeholder changes that message
\* only, where it is, and ends the loading
ReplacedInPlace ==
  \A i \in DOMAIN History :
    (History[i].isLoading /\ req'.conversationHistory # History) =>
      /\ DOMAIN req'.conversationHistory = DOMAIN History
      /\ \A j \in DOMAIN History : j # i => req'.conversationHistory[j] = History[j]
      /\ req'.conversationHistory[i].id = History[i].id
      /\ ~req'.conversationHistory[i].isLoading
      /\ req'.conversationHistory[i].text # PlaceholderText
      /\ ~req'.isLoading

\* C29: whenever isLoading is true it is eventually false again, and every
\* placeholder message is eventually replaced, where it stands, by a
\* message that is not loading and holds the description, the output or an
\* error text, whether the request succeeds, fails or is answered with an
\* invalid response.
C29_PlaceholderReplaced ==
  /\ req.isLoading ~> ~req.isLoading
  /\ \A id \in MessageIds : IsPlaceholder(id) ~> IsReplaced(id)
  /\ [][ReplacedInPlace]_vars

\* the cases of C29: a placeholder replaced by a chart, one by an error
\* text, and nothing loading
C29_Witness ==
  /\ ~req.isLoading
  /\ \E i, j \in DOMAIN History :
       /\ History[i].sender = "assistant"
       /\ Truthy(History[i].chartSpec)
       /\ History[j].text =
            Str(Lit("Rate limit exceeded. Please wait a moment and try again."))

\* at most one request is in flight, and the placeholder reference is the
\* one of that request
SingleFlight ==
  /\ Len(sent) <= 1
  /\ sent # <<>> => req.isLoading /\ req.placeholderIdRef = sent[1].placeholder
  /\ sent = <<>> => req.placeholderIdRef = Null

GuardedSend ==
  /\ SingleFlight
  /\ SingleFlight'
  /\ (call' # call /\ sent # <<>>) =>
       /\ call'.outcome = "blocked"
       /\ req' = req
       /\ sent' = sent
  /\ req'.placeholderIdRef # req.placeholderIdRef =>
       \/ sent = <<>> /\ sent' # <<>>
       \/ sent # <<>> /\ sent' = <<>> /\ req'.placeholderIdRef = Null

\* C30: at most one backend request is in flight; handleSendQuery invoked
\* while a request is awaited returns without appending a message or
\* sending; placeholderIdRef is set when a request is sent and reset to null
\* only when that request has settled.
C30_OneRequestInFlight == [][GuardedSend]_vars

\* the case of C30: with a query typed, handleSendQuery was invoked while a
\* request was in flight and returned at its guard
C30_Witness ==
  /\ sent # <<>>
  /\ call.outcome = "blocked"
  /\ Trim(req.userQuery) # <<>>

====
